---- MODULE Spec2Model ----
(***************************************************************************)
(* TrueMile backend: load extraction, fit scoring and broker-relationship  *)
(* aggregation (LoadExtractorService), as a state machine.                 *)
(*                                                                         *)
(* Conventions                                                             *)
(*   - an optional value (null / undefined in the source) is the empty     *)
(*     sequence <<>>; a present value v is <<v>>;                          *)
(*   - text the code inspects character by character is a sequence of      *)
(*     one-character strings;                                              *)
(*   - money is in cents and a rate per mile in cents per mile, so that    *)
(*     Math.round(x * 100) / 100 is integer arithmetic;                    *)
(*   - a quotient the code stores as a double is the exact fraction        *)
(*     [num, den];                                                         *)
(*   - time is in whole days.                                              *)
(***************************************************************************)
EXTENDS Integers, Sequences, FiniteSets, TLC

VARIABLES
    loadTable,    \* the "Load" table: sequence of rows in insertion order
    brokerStats,  \* the "BrokerStats" table: broker -> optional row
    clock,        \* the wall clock (new Date()), in days
    pc,           \* per sync run: where its extractFromMessage call stands
    local,        \* per sync run: the locals of the call in progress
    outcome,      \* per sync run: what the caller of extractFromMessage saw
    basis,        \* broker -> what the stored BrokerStats row was computed from
    faults,       \* how many store calls are still going to fail
    kind,         \* which pure function a scoring run exercises
    inp,          \* the input of the pure function
    out,          \* its optional result
    prev,         \* the optional result for the previous totalLoads
    KNOWN_BROKERS, \* the broker directory: the seed list and what was added to it
    syncJob,      \* the optional sync run or backfill: its SyncJob row and its locals
    emailAccount, \* the optional "EmailAccount" row of the Gmail account
    authCall,     \* the getAuthClient call in progress and what it has done
    dateNow,      \* Date.now(), in minutes
    scheduler     \* PollingScheduler: cronJob, isRunning and the cycles that were triggered

vars == <<loadTable, brokerStats, clock, pc, local, outcome, basis, faults, kind, inp, out, prev,
          KNOWN_BROKERS, syncJob, emailAccount, authCall, dateNow,
          scheduler>>

None == <<>>
Some(v) == <<v>>

Min2(a, b) == IF a <= b THEN a ELSE b
Max2(a, b) == IF a >= b THEN a ELSE b

(***************************************************************************)
(* Text helpers                                                            *)
(***************************************************************************)
LowerLetters == <<"a","b","c","d","e","f","g","h","i","j","k","l","m",
                  "n","o","p","q","r","s","t","u","v","w","x","y","z">>
UpperLetters == <<"A","B","C","D","E","F","G","H","I","J","K","L","M",
                  "N","O","P","Q","R","S","T","U","V","W","X","Y","Z">>
Digits == {"0","1","2","3","4","5","6","7","8","9"}

IsUpper(c) == \E i \in 1..26 : UpperLetters[i] = c
IsLower(c) == \E i \in 1..26 : LowerLetters[i] = c
\* a regular expression's \w
IsWordChar(c) == IsUpper(c) \/ IsLower(c) \/ c \in Digits \/ c = "_"

toUpperChar(c) == IF IsLower(c) THEN UpperLetters[CHOOSE i \in 1..26 : LowerLetters[i] = c] ELSE c
toLowerChar(c) == IF IsUpper(c) THEN LowerLetters[CHOOSE i \in 1..26 : UpperLetters[i] = c] ELSE c
toLowerCase(s) == [i \in 1..Len(s) |-> toLowerChar(s[i])]
toUpperCase(s) == [i \in 1..Len(s) |-> toUpperChar(s[i])]

\* String.prototype.includes
includes(s, t) == \E i \in 1..(Len(s) - Len(t) + 1) : SubSeq(s, i, i + Len(t) - 1) = t

\* s.split(' ').map(word => word.charAt(0).toUpperCase() + word.slice(1)).join(' ')
TitleCaseWords(s) ==
    [i \in 1..Len(s) |-> IF i = 1 \/ s[i - 1] = " " THEN toUpperChar(s[i]) ELSE s[i]]

\* s.match(/\b([A-Z]{2})\b/)?.[1]: the first two-capital word of s, if any
MatchStateToken(s) ==
    LET hit(i) == /\ IsUpper(s[i]) /\ IsUpper(s[i + 1])
                  /\ (i = 1 \/ ~IsWordChar(s[i - 1]))
                  /\ (i + 1 = Len(s) \/ ~IsWordChar(s[i + 2]))
        hits == {i \in 1..(Len(s) - 1) : hit(i)}
    IN  IF hits = {} THEN None
        ELSE LET i == CHOOSE j \in hits : \A k \in hits : j <= k
             IN  Some(<<s[i], s[i + 1]>>)

(***************************************************************************)
(* Configuration                                                           *)
(***************************************************************************)
TX == <<"T","X">>
OK == <<"O","K">>
LA == <<"L","A">>
AR == <<"A","R">>
NM == <<"N","M">>
GA == <<"G","A">>
CA == <<"C","A">>
TZ == <<"T","Z">>

Dallas == <<"D","a","l","l","a","s">>
DALLAS == <<"D","A","L","L","A","S">>
Tulsa == <<"T","u","l","s","a">>
Atlanta == <<"A","t","l","a","n","t","a">>
CommaSpace == <<",", " ">>

DryVan == <<"D","r","y"," ","V","a","n">>
Reefer == <<"R","e","e","f","e","r">>

\* src/config/company-preferences.ts, in cents per mile and miles
COMPANY_PREFERENCES ==
    [minRatePerMile |-> 200,
     preferredStates |-> <<TX, OK, LA, AR, NM>>,
     preferredEquipment |-> <<DryVan, Reefer>>,
     maxDistance |-> 500]

SeqToSet(s) == {s[i] : i \in 1..Len(s)}

(***************************************************************************)
(* Field extractors. The text of a message is abstracted to what the       *)
(* extractors' regular expressions capture in it: for every pattern of a   *)
(* field's ordered pattern list, the optional capture of its first match.  *)
(***************************************************************************)
US_STATES ==
    {<<"A","L">>, <<"A","K">>, <<"A","Z">>, <<"A","R">>, <<"C","A">>, <<"C","O">>,
     <<"C","T">>, <<"D","E">>, <<"F","L">>, <<"G","A">>, <<"H","I">>, <<"I","D">>,
     <<"I","L">>, <<"I","N">>, <<"I","A">>, <<"K","S">>, <<"K","Y">>, <<"L","A">>,
     <<"M","E">>, <<"M","D">>, <<"M","A">>, <<"M","I">>, <<"M","N">>, <<"M","S">>,
     <<"M","O">>, <<"M","T">>, <<"N","E">>, <<"N","V">>, <<"N","H">>, <<"N","J">>,
     <<"N","M">>, <<"N","Y">>, <<"N","C">>, <<"N","D">>, <<"O","H">>, <<"O","K">>,
     <<"O","R">>, <<"P","A">>, <<"R","I">>, <<"S","C">>, <<"S","D">>, <<"T","N">>,
     <<"T","X">>, <<"U","T">>, <<"V","T">>, <<"V","A">>, <<"W","A">>, <<"W","V">>,
     <<"W","I">>, <<"W","Y">>}

\* the index of the first pattern whose capture exists and passes accept, or 0
FirstAccepted(caps, accept(_)) ==
    LET good == {i \in 1..Len(caps) : caps[i] # None /\ accept(caps[i][1])}
    IN  IF good = {} THEN 0 ELSE CHOOSE i \in good : \A j \in good : i <= j

extractLoadNumber(content) ==
    LET ok(n) == Len(n) >= 4 /\ Len(n) <= 20
        i == FirstAccepted(content.loadNumberCaps, ok)
    IN  IF i = 0 THEN None ELSE content.loadNumberCaps[i]

\* the first pattern that matches decides, in range or not
extractRate_firstMatch(content) ==
    LET matched == {i \in 1..Len(content.rateCaps) : content.rateCaps[i] # None}
        first == CHOOSE i \in matched : \A j \in matched : i <= j
    IN  IF matched = {} THEN None
        ELSE IF content.rateCaps[first][1] >= 30000 /\ content.rateCaps[first][1] <= 1500000
        THEN content.rateCaps[first]
        ELSE None

\* rates in cents: 300 <= rate <= 15000 dollars
extractRate(content) ==
    LET ok(r) == r >= 30000 /\ r <= 1500000
        i == FirstAccepted(content.rateCaps, ok)
    IN  IF i = 0 THEN None ELSE content.rateCaps[i]

\* city === city.toUpperCase() ? title case of the lower-cased city : city
normalizeCity(city) ==
    IF city = <<>> THEN <<>>
    ELSE IF city = toUpperCase(city) THEN TitleCaseWords(toLowerCase(city))
    ELSE city

\* only the origin state looked up in the state list
extractLane_originOnly(content) ==
    LET m1 == content.lane1
        m2 == content.lane2
        ok1 == m1 # None /\ toUpperCase(m1[1].originState) \in US_STATES
        ok2 == m2 # None /\ toUpperCase(m2[1].originState) \in US_STATES
    IN  IF ok1 THEN Some([originCity |-> normalizeCity(m1[1].originCity),
                          originState |-> toUpperCase(m1[1].originState),
                          destCity |-> normalizeCity(m1[1].destCity),
                          destState |-> toUpperCase(m1[1].destState)])
        ELSE IF ok2 THEN Some([originCity |-> <<>>,
                               originState |-> toUpperCase(m2[1].originState),
                               destCity |-> <<>>,
                               destState |-> toUpperCase(m2[1].destState)])
        ELSE None

extractLane(content) ==
    LET m1 == content.lane1
        m2 == content.lane2
        ok1 == /\ m1 # None
               /\ toUpperCase(m1[1].originState) \in US_STATES
               /\ toUpperCase(m1[1].destState) \in US_STATES
        ok2 == /\ m2 # None
               /\ toUpperCase(m2[1].originState) \in US_STATES
               /\ toUpperCase(m2[1].destState) \in US_STATES
    IN  IF ok1 THEN Some([originCity |-> normalizeCity(m1[1].originCity),
                          originState |-> toUpperCase(m1[1].originState),
                          destCity |-> normalizeCity(m1[1].destCity),
                          destState |-> toUpperCase(m1[1].destState)])
        ELSE IF ok2 THEN Some([originCity |-> <<>>,
                               originState |-> toUpperCase(m2[1].originState),
                               destCity |-> <<>>,
                               destState |-> toUpperCase(m2[1].destState)])
        ELSE None

\* the script's extractLane (part_011): the city form with its checks on the
\* cities, then the labeled fields, then the starred table form; no bare form
NoiseWords == <<<<"n","o","t","i","f","i","c","a","t","i","o","n">>, <<"l","o","a","d">>, <<"b","i","d">>, <<"c","h","a","n","c","e">>, <<"f","l","e","e","t">>>>

NoisyCity(city) == \E i \in 1..Len(NoiseWords) : includes(toLowerCase(city), NoiseWords[i])

script_extractLane(content) ==
    LET ok(m) == /\ m # None
                 /\ toUpperCase(m[1].originState) \in US_STATES
                 /\ toUpperCase(m[1].destState) \in US_STATES
                 /\ Len(m[1].originCity) >= 3 /\ Len(m[1].destCity) >= 3
        lane(m) == Some([originCity |-> normalizeCity(m[1].originCity),
                         originState |-> toUpperCase(m[1].originState),
                         destCity |-> normalizeCity(m[1].destCity),
                         destState |-> toUpperCase(m[1].destState)])
    IN  IF ok(content.lane1) /\ ~NoisyCity(content.lane1[1].originCity)
           /\ ~NoisyCity(content.lane1[1].destCity)
        THEN lane(content.lane1)
        ELSE IF ok(content.labeled) THEN lane(content.labeled)
        ELSE IF ok(content.table) THEN lane(content.table)
        ELSE None

extractMiles(content) ==
    LET ok(m) == m >= 50 /\ m <= 3500
        i == FirstAccepted(content.milesCaps, ok)
    IN  IF i = 0 THEN None ELSE content.milesCaps[i]

equipmentTypes ==
    <<<<"d","r","y"," ","v","a","n">>, <<"v","a","n">>, <<"r","e","e","f","e","r">>,
      <<"f","l","a","t","b","e","d">>, <<"s","t","e","p","d","e","c","k">>,
      <<"s","t","e","p"," ","d","e","c","k">>, <<"l","o","w","b","o","y">>,
      <<"c","o","n","e","s","t","o","g","a">>, <<"h","o","t","s","h","o","t">>,
      <<"b","o","x"," ","t","r","u","c","k">>, <<"s","p","r","i","n","t","e","r">>,
      <<"p","o","w","e","r"," ","o","n","l","y">>, <<"t","a","n","k","e","r">>,
      <<"d","u","m","p">>, <<"h","o","p","p","e","r">>>>

extractEquipment(content) ==
    LET lowerContent == toLowerCase(content.text)
        found == {i \in 1..Len(equipmentTypes) : includes(lowerContent, equipmentTypes[i])}
    IN  IF found = {} THEN None
        ELSE Some(TitleCaseWords(equipmentTypes[CHOOSE i \in found : \A j \in found : i <= j]))

extractWeight(content) ==
    LET ok(w) == w >= 100 /\ w <= 50000
        i == FirstAccepted(content.weightCaps, ok)
    IN  IF i = 0 THEN None ELSE content.weightCaps[i]

\* ascending insertion sort of a sequence of numbers
RECURSIVE SortAsc(_)
SortAsc(s) ==
    IF Len(s) <= 1 THEN s
    ELSE LET rest == SortAsc(Tail(s))
             k == Cardinality({i \in 1..Len(rest) : rest[i] < Head(s)})
         IN  SubSeq(rest, 1, k) \o <<Head(s)>> \o SubSeq(rest, k + 1, Len(rest))

extractDates(content) ==
    LET dates == SortAsc(content.dateTokens)
    IN  [pickupDate |-> IF Len(dates) >= 1 THEN Some(dates[1]) ELSE None,
         deliveryDate |-> IF Len(dates) >= 2 THEN Some(dates[2]) ELSE None]

\* the state-to-state distance table, looked up in both directions
stateDistances ==
    {<<"TX","TX",300>>, <<"TX","NE",900>>, <<"TX","AL",700>>, <<"TX","NM",400>>,
     <<"TX","OK",250>>, <<"TX","LA",350>>, <<"TX","AR",400>>, <<"TX","CO",800>>,
     <<"VA","MO",880>>, <<"VA","NC",250>>, <<"VA","GA",500>>, <<"VA","TN",450>>,
     <<"CA","TX",1400>>, <<"CA","AZ",400>>, <<"CA","NV",450>>, <<"CA","OR",600>>,
     <<"FL","WY",2000>>, <<"FL","CO",1900>>, <<"FL","IL",1200>>, <<"FL","TX",1300>>,
     <<"FL","GA",350>>, <<"FL","AL",450>>, <<"FL","SC",550>>, <<"FL","NC",650>>,
     <<"FL","FL",300>>, <<"NY","CA",2700>>, <<"NY","FL",1200>>, <<"NY","TX",1700>>,
     <<"IL","TX",1000>>, <<"IL","FL",1200>>, <<"IL","CA",2000>>, <<"IL","NY",800>>,
     <<"IA","TX",900>>, <<"IA","IL",300>>, <<"IA","NE",200>>, <<"IA","MN",250>>,
     <<"AZ","FL",2000>>, <<"AZ","TX",900>>, <<"AZ","CA",400>>, <<"AZ","NM",350>>,
     <<"KS","TX",500>>, <<"KS","CO",400>>, <<"KS","NE",200>>, <<"KS","OK",250>>,
     <<"MN","GA",1200>>, <<"MN","IL",450>>, <<"MN","TX",1200>>, <<"MN","FL",1500>>,
     <<"OH","AL",650>>, <<"OH","GA",700>>, <<"OH","FL",1100>>, <<"OH","TX",1200>>,
     <<"WI","IL",200>>, <<"WI","TX",1100>>, <<"WI","FL",1400>>, <<"WI","CA",1900>>,
     <<"GA","TX",1000>>, <<"GA","FL",350>>, <<"GA","NC",350>>, <<"GA","SC",250>>,
     <<"NC","TX",1300>>, <<"NC","FL",650>>, <<"NC","VA",250>>, <<"NC","SC",200>>,
     <<"PA","FL",1100>>, <<"PA","TX",1500>>, <<"PA","OH",350>>, <<"PA","NY",250>>,
     <<"MI","TX",1200>>, <<"MI","FL",1300>>, <<"MI","IL",300>>, <<"MI","OH",250>>,
     <<"TN","TX",800>>, <<"TN","FL",650>>, <<"TN","GA",250>>, <<"TN","NC",350>>,
     <<"MO","TX",700>>, <<"MO","IL",300>>, <<"MO","KS",250>>, <<"MO","AR",250>>}

\* stateDistances[key]: the table has one entry per key
DistanceEntry(o, d) ==
    LET e == {t \in stateDistances : t[1] = o[1] \o o[2] /\ t[2] = d[1] \o d[2]}
    IN  IF e = {} THEN None ELSE Some((CHOOSE t \in e : TRUE)[3])

\* stateDistances[routeKey] || stateDistances[reverseKey] || null
calculateDistance(originCity, originState, destCity, destState) ==
    IF DistanceEntry(originState, destState) # None
    THEN DistanceEntry(originState, destState)
    ELSE DistanceEntry(destState, originState)


(***************************************************************************)
(* extractLoad                                                             *)
(***************************************************************************)
\* JavaScript truthiness of an optional number / an optional string
TruthyNum(o) == o # None /\ o[1] # 0
TruthyStr(o) == o # None /\ Len(o[1]) > 0

\* Math.round((rate / miles) * 100) / 100, in cents per mile (rate in cents)
RoundedRatePerMile(rate, miles) == (2 * rate + miles) \div (2 * miles)

\* the ceiling applied as a cap instead of a drop
ratePerMileOf_capped(rate, miles) ==
    IF TruthyNum(rate) /\ TruthyNum(miles)
    THEN IF RoundedRatePerMile(rate[1], miles[1]) > 1500
         THEN Some(1500)
         ELSE Some(RoundedRatePerMile(rate[1], miles[1]))
    ELSE None

\* the plausibility ceiling of 15 dollars per mile
ratePerMileOf(rate, miles) ==
    IF TruthyNum(rate) /\ TruthyNum(miles)
    THEN IF RoundedRatePerMile(rate[1], miles[1]) > 1500
         THEN None
         ELSE Some(RoundedRatePerMile(rate[1], miles[1]))
    ELSE None

\* the lane weighted 40 instead of 30
confidenceOf_lane40(lane, rate, miles, equipment, loadNumber, weight, dates) ==
      (IF lane # None THEN 40 ELSE 0)
    + (IF TruthyNum(rate) THEN 25 ELSE 0)
    + (IF TruthyNum(miles) THEN 20 ELSE 0)
    + (IF TruthyStr(equipment) THEN 10 ELSE 0)
    + (IF TruthyStr(loadNumber) THEN 5 ELSE 0)
    + (IF TruthyNum(weight) THEN 5 ELSE 0)
    + (IF dates.pickupDate # None THEN 3 ELSE 0)
    + (IF dates.deliveryDate # None THEN 2 ELSE 0)

\* the two dates left out of the sum
confidenceOf_noDates(lane, rate, miles, equipment, loadNumber, weight, dates) ==
      (IF lane # None THEN 30 ELSE 0)
    + (IF TruthyNum(rate) THEN 25 ELSE 0)
    + (IF TruthyNum(miles) THEN 20 ELSE 0)
    + (IF TruthyStr(equipment) THEN 10 ELSE 0)
    + (IF TruthyStr(loadNumber) THEN 5 ELSE 0)
    + (IF TruthyNum(weight) THEN 5 ELSE 0)

confidenceOf(lane, rate, miles, equipment, loadNumber, weight, dates) ==
      (IF lane # None THEN 30 ELSE 0)
    + (IF TruthyNum(rate) THEN 25 ELSE 0)
    + (IF TruthyNum(miles) THEN 20 ELSE 0)
    + (IF TruthyStr(equipment) THEN 10 ELSE 0)
    + (IF TruthyStr(loadNumber) THEN 5 ELSE 0)
    + (IF TruthyNum(weight) THEN 5 ELSE 0)
    + (IF dates.pickupDate # None THEN 3 ELSE 0)
    + (IF dates.deliveryDate # None THEN 2 ELSE 0)

extractLoad(content) ==
    LET loadNumber == extractLoadNumber(content)
        lane == extractLane(content)
        rate == extractRate(content)
        miles0 == extractMiles(content)
        equipment == extractEquipment(content)
        weight == extractWeight(content)
        dates == extractDates(content)
        calculated == IF lane # None
                      THEN calculateDistance(lane[1].originCity, lane[1].originState,
                                             lane[1].destCity, lane[1].destState)
                      ELSE None
        miles == IF lane # None /\ ~TruthyNum(miles0) /\ TruthyNum(calculated)
                 THEN calculated ELSE miles0
        ratePerMile == ratePerMileOf(rate, miles)
        confidence == confidenceOf(lane, rate, miles, equipment, loadNumber, weight, dates)
    IN  IF confidence < 25 THEN None
        ELSE Some([confidence |-> confidence,
                   loadNumber |-> loadNumber,
                   rate |-> rate,
                   miles |-> miles,
                   ratePerMile |-> ratePerMile,
                   equipment |-> equipment,
                   weight |-> weight,
                   originCity |-> IF lane = None THEN None ELSE Some(lane[1].originCity),
                   originState |-> IF lane = None THEN None ELSE Some(lane[1].originState),
                   destCity |-> IF lane = None THEN None ELSE Some(lane[1].destCity),
                   destState |-> IF lane = None THEN None ELSE Some(lane[1].destState),
                   pickupDate |-> dates.pickupDate,
                   deliveryDate |-> dates.deliveryDate])

\* the one try/catch of extractLoad (lines 1081-1148): thrownBy names the field
\* extractor that throws, "none" when none does; whatever is thrown inside the
\* try lands in the catch, which returns null
FieldExtractors ==
    {"loadNumber", "lane", "rate", "miles", "equipment", "weight", "dates", "contact"}

extractLoadCaught(content, thrownBy) ==
    IF thrownBy \in FieldExtractors THEN None ELSE extractLoad(content)

Space == <<" ">>

\* Array.filter(keyword => content.includes(keyword)).length
Hits(content, keywords) ==
    Cardinality({i \in 1..Len(keywords) : includes(content, keywords[i])})

newsletterKeywords ==
    <<<<"n","e","w","s","l","e","t","t","e","r">>,
      <<"w","e","e","k","l","y"," ","t","r","u","c","k","i","n","g"," ","n","e","w","s">>,
      <<"m","a","r","k","e","t"," ","u","p","d","a","t","e">>,
      <<"i","n","d","u","s","t","r","y"," ","u","p","d","a","t","e">>,
      <<"u","n","s","u","b","s","c","r","i","b","e"," ","f","r","o","m"," ","f","u","t","u","r","e">>,
      <<"u","p","d","a","t","e"," ","p","r","o","f","i","l","e">>>>

loadKeywords ==
    <<<<"a","v","a","i","l","a","b","l","e"," ","l","o","a","d">>,
      <<"l","o","a","d"," ","o","f","f","e","r">>,
      <<"p","i","c","k">>,
      <<"d","e","l">>,
      <<"d","e","l","i","v","e","r","y">>,
      <<"d","e","s","t","i","n","a","t","i","o","n">>,
      <<"o","r","i","g","i","n">>,
      <<"r","a","t","e",":">>,
      <<"m","i","l","e","s">>,
      <<"e","q","u","i","p","m","e","n","t",":">>>>

\* `${subject} ${body}`.toLowerCase(): a newsletter phrase rejects, else two of the
\* ten load keywords have to occur
isLoadOffer(subject, body) ==
    LET content == toLowerCase(subject \o Space \o body)
    IN  IF Hits(content, newsletterKeywords) >= 1 THEN FALSE
        ELSE Hits(content, loadKeywords) >= 2

\* the copy of the pre-filter in test-load-extraction-improved.js
script_newsletterKeywords ==
    <<<<"n","e","w","s","l","e","t","t","e","r">>,
      <<"w","e","e","k","l","y"," ","t","r","u","c","k","i","n","g"," ","n","e","w","s">>,
      <<"m","a","r","k","e","t"," ","u","p","d","a","t","e">>,
      <<"u","n","s","u","b","s","c","r","i","b","e"," ","f","r","o","m"," ","f","u","t","u","r","e"," ","a","v","a","i","l","a","b","l","e"," ","l","o","a","d"," ","r","e","p","o","r","t","s">>>>

script_loadKeywords ==
    <<<<"p","i","c","k">>,
      <<"d","e","l">>,
      <<"d","e","l","i","v","e","r","y">>,
      <<"d","e","s","t","i","n","a","t","i","o","n">>,
      <<"o","r","i","g","i","n">>,
      <<"r","a","t","e",":">>,
      <<"r","a","t","e"," ","$">>,
      <<"m","i","l","e","s">>,
      <<"e","q","u","i","p","m","e","n","t",":">>,
      <<"d","r","y"," ","v","a","n">>,
      <<"r","e","e","f","e","r">>,
      <<"f","l","a","t","b","e","d">>>>

Unsubscribe == <<"u","n","s","u","b","s","c","r","i","b","e">>

script_isLoadOffer(subject, body) ==
    LET content == toLowerCase(subject \o Space \o body)
    IN  IF Hits(content, script_newsletterKeywords) >= 1 /\ includes(content, Unsubscribe)
        THEN FALSE
        ELSE Hits(content, script_loadKeywords) >= 2

(***************************************************************************)
(* calculatePriorityScore                                                  *)
(***************************************************************************)
\* the at-threshold comparison strict: a rate equal to the minimum falls a tier
ratePoints_strict(prefs, ratePerMile) ==
    IF ~TruthyNum(ratePerMile) THEN 0
    ELSE IF ratePerMile[1] >= prefs.minRatePerMile + 100 THEN 40
    ELSE IF ratePerMile[1] > prefs.minRatePerMile THEN 25
    ELSE IF ratePerMile[1] >= prefs.minRatePerMile - 25 THEN 10
    ELSE 0

\* the below-target band 0.50 wide instead of 0.25
ratePoints_wideBelow(prefs, ratePerMile) ==
    IF ~TruthyNum(ratePerMile) THEN 0
    ELSE IF ratePerMile[1] >= prefs.minRatePerMile + 100 THEN 40
    ELSE IF ratePerMile[1] >= prefs.minRatePerMile THEN 25
    ELSE IF ratePerMile[1] >= prefs.minRatePerMile - 50 THEN 10
    ELSE 0

ratePoints(prefs, ratePerMile) ==
    IF ~TruthyNum(ratePerMile) THEN 0
    ELSE IF ratePerMile[1] >= prefs.minRatePerMile + 100 THEN 40
    ELSE IF ratePerMile[1] >= prefs.minRatePerMile THEN 25
    ELSE IF ratePerMile[1] >= prefs.minRatePerMile - 25 THEN 10
    ELSE 0

\* the 10-point tier left without its note
rateReasons_silentBelow(prefs, ratePerMile) ==
    IF ~TruthyNum(ratePerMile) THEN <<>>
    ELSE IF ratePerMile[1] >= prefs.minRatePerMile + 100 THEN <<"Excellent rate">>
    ELSE IF ratePerMile[1] >= prefs.minRatePerMile THEN <<"Good rate">>
    ELSE <<>>

rateReasons(prefs, ratePerMile) ==
    IF ~TruthyNum(ratePerMile) THEN <<>>
    ELSE IF ratePerMile[1] >= prefs.minRatePerMile + 100 THEN <<"Excellent rate">>
    ELSE IF ratePerMile[1] >= prefs.minRatePerMile THEN <<"Good rate">>
    ELSE IF ratePerMile[1] >= prefs.minRatePerMile - 25 THEN <<"Below target rate">>
    ELSE <<>>

\* state && preferredStates.includes(state), for the state token of origin / destination
PreferredPlace(prefs, place) ==
    /\ place # None
    /\ MatchStateToken(place[1]) # None
    /\ MatchStateToken(place[1])[1] \in SeqToSet(prefs.preferredStates)

matchesEquipment(prefs, equipment) ==
    /\ TruthyStr(equipment)
    /\ \E i \in 1..Len(prefs.preferredEquipment) :
          includes(toLowerCase(equipment[1]), toLowerCase(prefs.preferredEquipment[i]))

distancePoints(prefs, distance) ==
    IF ~TruthyNum(distance) THEN 0
    ELSE IF distance[1] <= prefs.maxDistance THEN 10
    ELSE IF 2 * distance[1] <= 3 * prefs.maxDistance THEN 5
    ELSE 0

calculatePriorityScore(prefs, load) ==
    LET score == ratePoints(prefs, load.ratePerMile)
                 + (IF PreferredPlace(prefs, load.origin) THEN 15 ELSE 0)
                 + (IF PreferredPlace(prefs, load.destination) THEN 15 ELSE 0)
                 + (IF matchesEquipment(prefs, load.equipment) THEN 20 ELSE 0)
                 + distancePoints(prefs, load.distance)
        reasons == rateReasons(prefs, load.ratePerMile)
                   \o (IF PreferredPlace(prefs, load.origin) THEN <<"Preferred origin">> ELSE <<>>)
                   \o (IF PreferredPlace(prefs, load.destination)
                       THEN <<"Preferred destination">> ELSE <<>>)
                   \o (IF matchesEquipment(prefs, load.equipment)
                       THEN <<"Equipment match">> ELSE <<>>)
                   \o (IF TruthyNum(load.distance) /\ load.distance[1] <= prefs.maxDistance
                       THEN <<"Good distance">> ELSE <<>>)
    IN  [score |-> Min2(score, 100),
         reason |-> IF reasons = <<>> THEN <<"No match criteria">> ELSE reasons]

(***************************************************************************)
(* calculateRelationshipScore                                              *)
(***************************************************************************)
\* the 10-to-19 tier worth 8, less than the 9 a broker with 9 loads gets
volumePoints_lowTier(totalLoads) ==
    IF totalLoads >= 50 THEN 40
    ELSE IF totalLoads >= 20 THEN 30
    ELSE IF totalLoads >= 10 THEN 8
    ELSE totalLoads

volumePoints(totalLoads) ==
    IF totalLoads >= 50 THEN 40
    ELSE IF totalLoads >= 20 THEN 30
    ELSE IF totalLoads >= 10 THEN 20
    ELSE totalLoads

activityPoints(loadsThisMonth) ==
    IF loadsThisMonth >= 10 THEN 30
    ELSE IF loadsThisMonth >= 5 THEN 20
    ELSE IF loadsThisMonth >= 2 THEN 10
    ELSE 0

\* avgRatePerMile is the fraction num / den of cents per mile
rateQualityPoints(prefs, avg) ==
    IF avg.num >= (prefs.minRatePerMile + 50) * avg.den THEN 20
    ELSE IF avg.num >= prefs.minRatePerMile * avg.den THEN 15
    ELSE IF avg.num >= (prefs.minRatePerMile - 25) * avg.den THEN 10
    ELSE 0

\* the score is the fraction num / den, den being laneConsistency's denominator
calculateRelationshipScore(prefs, stats) ==
    LET points == volumePoints(stats.totalLoads)
                  + activityPoints(stats.loadsThisMonth)
                  + rateQualityPoints(prefs, stats.avgRatePerMile)
        den == stats.laneConsistency.den
    IN  [num |-> Min2(points * den + stats.laneConsistency.num * 10, 100 * den),
         den |-> den]


(***************************************************************************)
(* updateBrokerStats: the statistics of one broker, recomputed from the    *)
(* rows prisma.load.findMany returned (allLoads) at the time now           *)
(***************************************************************************)
RECURSIVE SumSeq(_)
SumSeq(s) == IF s = <<>> THEN 0 ELSE Head(s) + SumSeq(Tail(s))

MaxOf(s) == CHOOSE x \in SeqToSet(s) : \A y \in SeqToSet(s) : x >= y
MinOf(s) == CHOOSE x \in SeqToSet(s) : \A y \in SeqToSet(s) : x <= y

Fraction(n, d) == [num |-> n, den |-> d]

\* l.extractedAt >= now - days, counted
loadsSince(allLoads, now, days) ==
    Cardinality({i \in 1..Len(allLoads) : allLoads[i].extractedAt >= now - days})

\* allLoads.map(l => l.ratePerMile).filter(r => r !== null)
ratesPerMileOf(allLoads) ==
    LET present == SelectSeq(allLoads, LAMBDA l : l.ratePerMile # None)
    IN  [i \in 1..Len(present) |-> present[i].ratePerMile[1]]

averageOf(rates) == IF Len(rates) > 0 THEN Some(Fraction(SumSeq(rates), Len(rates))) ELSE None

\* the Map of lanes, as its entries in insertion order
RECURSIVE laneMapOf(_)
laneMapOf(allLoads) ==
    IF allLoads = <<>> THEN <<>>
    ELSE LET before == laneMapOf(SubSeq(allLoads, 1, Len(allLoads) - 1))
             load == allLoads[Len(allLoads)]
             lane == <<load.origin[1], load.destination[1]>>
             pushed == IF TruthyNum(load.ratePerMile) THEN <<load.ratePerMile[1]>> ELSE <<>>
             at == {i \in 1..Len(before) : before[i].lane = lane}
         IN  IF ~(TruthyStr(load.origin) /\ TruthyStr(load.destination)) THEN before
             ELSE IF at = {}
             THEN Append(before, [lane |-> lane, count |-> 1, rates |-> pushed])
             ELSE [i \in 1..Len(before) |->
                     IF i \in at
                     THEN [before[i] EXCEPT !.count = @ + 1, !.rates = @ \o pushed]
                     ELSE before[i]]

\* Array.prototype.sort((a, b) => b.count - a.count): stable, by count descending
RECURSIVE sortByCountDesc(_)
sortByCountDesc(s) ==
    IF Len(s) <= 1 THEN s
    ELSE LET front == sortByCountDesc(SubSeq(s, 1, Len(s) - 1))
             last == s[Len(s)]
             k == Cardinality({i \in 1..Len(front) : front[i].count >= last.count})
         IN  SubSeq(front, 1, k) \o <<last>> \o SubSeq(front, k + 1, Len(front))

topLanesOf(allLoads) ==
    LET entries == laneMapOf(allLoads)
        mapped == [i \in 1..Len(entries) |->
                     [lane |-> entries[i].lane,
                      count |-> entries[i].count,
                      avgRate |-> averageOf(entries[i].rates)]]
        sorted == sortByCountDesc(mapped)
    IN  SubSeq(sorted, 1, Min2(5, Len(sorted)))

\* everything updateBrokerStats computes between findMany and the upsert
computeStats(prefs, brokerName, allLoads, now) ==
    LET loadsThisWeek == loadsSince(allLoads, now, 7)
        loadsThisMonth == loadsSince(allLoads, now, 30)
        ratesPerMile == ratesPerMileOf(allLoads)
        avgRatePerMile == averageOf(ratesPerMile)
        topLanes == topLanesOf(allLoads)
        dates == SortAsc([i \in 1..Len(allLoads) |-> allLoads[i].extractedAt])
    IN  [broker |-> brokerName,
         brokerEmail |-> allLoads[1].brokerEmail,
         totalLoads |-> Len(allLoads),
         loadsThisMonth |-> loadsThisMonth,
         loadsThisWeek |-> loadsThisWeek,
         avgRatePerMile |-> avgRatePerMile,
         highestRate |-> IF Len(ratesPerMile) > 0 THEN Some(MaxOf(ratesPerMile)) ELSE None,
         lowestRate |-> IF Len(ratesPerMile) > 0 THEN Some(MinOf(ratesPerMile)) ELSE None,
         topLanes |-> topLanes,
         laneCount |-> Len(laneMapOf(allLoads)),
         firstContactDate |-> allLoads[1].extractedAt,
         lastContactDate |-> now,
         avgDaysBetween |-> IF Len(dates) > 1
                            THEN Some(Fraction(dates[Len(dates)] - dates[1], Len(dates) - 1))
                            ELSE None,
         relationshipScore |-> calculateRelationshipScore(prefs,
             [totalLoads |-> Len(allLoads),
              loadsThisMonth |-> loadsThisMonth,
              avgRatePerMile |-> IF avgRatePerMile = None \/ avgRatePerMile[1].num = 0
                                 THEN Fraction(0, 1) ELSE avgRatePerMile[1],
              laneConsistency |-> IF Len(topLanes) > 0
                                  THEN Fraction(topLanes[1].count, Len(allLoads))
                                  ELSE Fraction(0, 1)])]

\* prisma.brokerStats.upsert: create writes every field; update writes every
\* field except broker and firstContactDate
upsertRow(existing, computed) ==
    IF existing = None THEN Some(computed)
    ELSE Some([computed EXCEPT !.firstContactDate = existing[1].firstContactDate])

NoCaps(n) == [i \in 1..n |-> None]
\* the capture of pattern i alone
CapAt(n, i, v) == [j \in 1..n |-> IF j = i THEN Some(v) ELSE None]
\* pattern i captures v, a later pattern k captures w
CapsAt(n, i, v, k, w) == [j \in 1..n |-> IF j = i THEN Some(v) ELSE IF j = k THEN Some(w) ELSE None]

(***************************************************************************)
(* BrokerIdentifierService: the broker directory and the domain matching   *)
(***************************************************************************)
KNOWN_BROKERS_seed ==
    <<[name |-> "C.H. Robinson", type |-> "major",
       domain |-> <<"c","h","r","o","b","i","n","s","o","n",".","c","o","m">>],
      [name |-> "TQL (Total Quality Logistics)", type |-> "major",
       domain |-> <<"t","q","l",".","c","o","m">>],
      [name |-> "XPO Logistics", type |-> "major",
       domain |-> <<"x","p","o",".","c","o","m">>],
      [name |-> "Coyote Logistics", type |-> "major",
       domain |-> <<"c","o","y","o","t","e",".","c","o","m">>],
      [name |-> "Echo Global Logistics", type |-> "major",
       domain |-> <<"e","c","h","o",".","c","o","m">>],
      [name |-> "Landstar", type |-> "major",
       domain |-> <<"l","a","n","d","s","t","a","r",".","c","o","m">>],
      [name |-> "J.B. Hunt", type |-> "major",
       domain |-> <<"j","b","h","u","n","t",".","c","o","m">>],
      [name |-> "Schneider", type |-> "major",
       domain |-> <<"s","c","h","n","e","i","d","e","r",".","c","o","m">>],
      [name |-> "Arrive Logistics", type |-> "major",
       domain |-> <<"a","r","r","i","v","e","l","o","g","i","s","t","i","c","s",".","c","o","m">>],
      [name |-> "RXO (formerly Coyote)", type |-> "major",
       domain |-> <<"r","x","o",".","c","o","m">>],
      [name |-> "Worldwide Express", type |-> "regional",
       domain |-> <<"w","w","e","x",".","c","o","m">>],
      [name |-> "GlobalTranz", type |-> "regional",
       domain |-> <<"g","l","o","b","a","l","t","r","a","n","z",".","c","o","m">>],
      [name |-> "Redwood Logistics", type |-> "regional",
       domain |-> <<"r","e","d","w","o","o","d","l","o","g","i","s","t","i","c","s",".","c","o","m">>],
      [name |-> "Armstrong Transport", type |-> "regional",
       domain |-> <<"a","r","m","s","t","r","o","n","g","t","r","a","n","s","p","o","r","t",".","c","o","m">>],
      [name |-> "Nolan Transportation Group", type |-> "regional",
       domain |-> <<"n","t","g","f","r","e","i","g","h","t",".","c","o","m">>],
      [name |-> "Mode Transportation", type |-> "regional",
       domain |-> <<"m","o","d","e","t","r","a","n","s","p","o","r","t","a","t","i","o","n",".","c","o","m">>],
      [name |-> "Mode Global", type |-> "regional",
       domain |-> <<"m","o","d","e","g","l","o","b","a","l",".","c","o","m">>],
      [name |-> "Capstone Logistics", type |-> "regional",
       domain |-> <<"c","a","p","s","t","o","n","e","l","o","g",".","c","o","m">>],
      [name |-> "Covenant Logistics", type |-> "regional",
       domain |-> <<"c","o","v","e","n","a","n","t","l","o","g","i","s","t","i","c","s",".","c","o","m">>],
      [name |-> "BNSF Logistics", type |-> "regional",
       domain |-> <<"b","n","s","f","l","o","g","i","s","t","i","c","s",".","c","o","m">>],
      [name |-> "Allen Lund Company", type |-> "regional",
       domain |-> <<"a","l","l","e","n","l","u","n","d",".","c","o","m">>],
      [name |-> "Tanager Logistics", type |-> "regional",
       domain |-> <<"t","a","n","a","g","e","r","l","o","g","i","s","t","i","c","s",".","c","o","m">>],
      [name |-> "First Connect Worldwide", type |-> "regional",
       domain |-> <<"f","i","r","s","t","c","o","n","n","e","c","t","w","o","r","l","d","w","i","d","e",".","c","o","m">>],
      [name |-> "Hub Group", type |-> "regional",
       domain |-> <<"h","u","b","g","r","o","u","p",".","c","o","m">>],
      [name |-> "ArcBest Corporation", type |-> "regional",
       domain |-> <<"a","r","c","b",".","c","o","m">>],
      [name |-> "ArcBest Corporation", type |-> "regional",
       domain |-> <<"a","r","c","b","e","s","t","c","o","r","p",".","c","o","m">>],
      [name |-> "ATS Inc.", type |-> "regional",
       domain |-> <<"a","t","s","i","n","c",".","c","o","m">>],
      [name |-> "Bay & Bay Transportation", type |-> "regional",
       domain |-> <<"b","a","y","a","n","d","b","a","y",".","c","o","m">>],
      [name |-> "Priority1 Inc.", type |-> "regional",
       domain |-> <<"p","r","i","o","r","i","t","y","1",".","c","o","m">>],
      [name |-> "Scoular", type |-> "regional",
       domain |-> <<"s","c","o","u","l","a","r",".","c","o","m">>],
      [name |-> "Ryan Transportation", type |-> "regional",
       domain |-> <<"r","t","s","n","a","t","i","o","n","a","l",".","c","o","m">>],
      [name |-> "PLS Logistics Services", type |-> "regional",
       domain |-> <<"p","l","s","l","o","g","i","s","t","i","c","s",".","c","o","m">>],
      [name |-> "Aloe Logistics", type |-> "regional",
       domain |-> <<"a","l","o","e","l","o","g","i","s","t","i","c","s",".","c","o","m">>],
      [name |-> "Ascent Global Logistics", type |-> "regional",
       domain |-> <<"a","s","c","e","n","t","g","l",".","c","o","m">>],
      [name |-> "Ascent Global Logistics", type |-> "regional",
       domain |-> <<"a","s","c","e","n","t","g","l","o","b","a","l",".","c","o","m">>],
      [name |-> "TFS Logistics", type |-> "regional",
       domain |-> <<"t","f","s","l","o","g","i","s","t","i","c","s",".","c","o","m">>],
      [name |-> "Trinity Logistics", type |-> "regional",
       domain |-> <<"t","r","i","n","i","t","y","l","o","g","i","s","t","i","c","s",".","c","o","m">>],
      [name |-> "KAG Logistics", type |-> "regional",
       domain |-> <<"k","a","g","l","o","g","i","s","t","i","c","s",".","c","o","m">>],
      [name |-> "Convoy", type |-> "digital",
       domain |-> <<"c","o","n","v","o","y",".","c","o","m">>],
      [name |-> "Transfix", type |-> "digital",
       domain |-> <<"t","r","a","n","s","f","i","x",".","i","o">>],
      [name |-> "Uber Freight", type |-> "digital",
       domain |-> <<"u","b","e","r","f","r","e","i","g","h","t",".","c","o","m">>],
      [name |-> "Loadsmart", type |-> "digital",
       domain |-> <<"l","o","a","d","s","m","a","r","t",".","c","o","m">>],
      [name |-> "Freightos", type |-> "digital",
       domain |-> <<"f","r","e","i","g","h","t","o","s",".","c","o","m">>],
      [name |-> "Shipwell", type |-> "digital",
       domain |-> <<"s","h","i","p","w","e","l","l",".","c","o","m">>],
      [name |-> "project44", type |-> "digital",
       domain |-> <<"p","r","o","j","e","c","t","4","4",".","c","o","m">>],
      [name |-> "Parade", type |-> "digital",
       domain |-> <<"p","a","r","a","d","e",".","a","i">>],
      [name |-> "Parade", type |-> "digital",
       domain |-> <<"m","a","i","l",".","p","a","r","a","d","e",".","a","i">>],
      [name |-> "Flock Freight", type |-> "digital",
       domain |-> <<"f","l","o","c","k","f","r","e","i","g","h","t",".","c","o","m">>],
      [name |-> "next Trucking", type |-> "digital",
       domain |-> <<"n","e","x","t","t","r","u","c","k","i","n","g",".","c","o","m">>],
      [name |-> "Crowley", type |-> "major",
       domain |-> <<"c","r","o","w","l","e","y",".","c","o","m">>]>>

\* The loops of this service are run over an index range lo..hi by running them over
\* the lower half and then, from the state that leaves, over the upper half: the
\* iterations happen in the source's order and the evaluation stays shallow.
\* TheOnly({f(v) : v \in {e}}) is f(e) with e computed once, before f is applied.
TheOnly(S) == CHOOSE v \in S : TRUE

\* the inner loop of levenshteinDistance for columns lo..hi of row i: above is
\* matrix[i-1], acc the cells of matrix[i] so far, c the character str2[i-1]
RECURSIVE LevCells(_, _, _, _, _, _)
LevCells(above, c, str1, lo, hi, acc) ==
    IF lo > hi THEN acc
    ELSE IF lo = hi
    THEN Append(acc, IF c = str1[lo] THEN above[lo]
                     ELSE Min2(above[lo] + 1, Min2(acc[lo] + 1, above[lo + 1] + 1)))
    ELSE LET mid == (lo + hi) \div 2
         IN  TheOnly({LevCells(above, c, str1, mid + 1, hi, cells) :
                          cells \in {LevCells(above, c, str1, lo, mid, acc)}})

\* the outer loop for rows lo..hi: the last row computed
RECURSIVE LevRows(_, _, _, _, _)
LevRows(str1, str2, lo, hi, above) ==
    IF lo > hi THEN above
    ELSE IF lo = hi THEN LevCells(above, str2[lo], str1, 1, Len(str1), <<lo>>)
    ELSE LET mid == (lo + hi) \div 2
         IN  TheOnly({LevRows(str1, str2, mid + 1, hi, row) :
                          row \in {LevRows(str1, str2, lo, mid, above)}})

levenshteinDistance(str1, str2) ==
    TheOnly({LevRows(str1, str2, 1, Len(str2), row) :
                 row \in {[j \in 1..(Len(str1) + 1) |-> j - 1]}})[Len(str1) + 1]

\* a similarity in [0,1], as an exact fraction
calculateSimilarity(str1, str2) ==
    LET longer == IF Len(str1) > Len(str2) THEN str1 ELSE str2
        shorter == IF Len(str1) > Len(str2) THEN str2 ELSE str1
    IN  IF Len(longer) = 0 THEN Fraction(1, 1)
        ELSE IF includes(longer, shorter) THEN Fraction(85, 100)
        ELSE Fraction(Len(longer) - levenshteinDistance(str1, str2), Len(longer))

FracGeq(a, b) == a.num * b.den >= b.num * a.den
FracGt(a, b) == a.num * b.den > b.num * a.den

startsWith(s, t) == Len(s) >= Len(t) /\ SubSeq(s, 1, Len(t)) = t
endsWith(s, t) == Len(s) >= Len(t) /\ SubSeq(s, Len(s) - Len(t) + 1, Len(s)) = t

Dot == <<".">>

\* domain.replace(/^(mail|smtp|email|webmail|mx|send)\./, '')
MailPrefixes ==
    <<<<"m","a","i","l">>, <<"s","m","t","p">>, <<"e","m","a","i","l">>,
      <<"w","e","b","m","a","i","l">>, <<"m","x">>, <<"s","e","n","d">>>>

cleanDomainOf(domain) ==
    LET hits == {i \in 1..Len(MailPrefixes) : startsWith(domain, MailPrefixes[i] \o Dot)}
    IN  IF hits = {} THEN domain
        ELSE LET i == CHOOSE k \in hits : \A h \in hits : k <= h
             IN  SubSeq(domain, Len(MailPrefixes[i]) + 2, Len(domain))

\* broker.domain.split('.')[0]
brokerBaseNameOf(brokerDomain) ==
    LET dots == {i \in 1..Len(brokerDomain) : brokerDomain[i] = "."}
    IN  IF dots = {} THEN brokerDomain
        ELSE SubSeq(brokerDomain, 1, (CHOOSE i \in dots : \A k \in dots : i <= k) - 1)

\* the exact rule taken without the subdomain test
exactRule_noSubdomain(domain, brokerDomain) == domain = brokerDomain

\* domain === broker.domain || domain.endsWith(`.${broker.domain}`)
exactRule(domain, brokerDomain) ==
    domain = brokerDomain \/ endsWith(domain, Dot \o brokerDomain)

\* the containment rule tried only when the edit-distance rule did not accept
fuzzyRules_firstWins(domain, broker, bestMatch) ==
    LET similarity == calculateSimilarity(cleanDomainOf(domain), broker.domain)
        brokerBaseName == brokerBaseNameOf(broker.domain)
    IN  IF FracGeq(similarity, Fraction(75, 100))
        THEN IF bestMatch = None \/ FracGt(similarity, bestMatch[1].similarity)
             THEN Some([broker |-> broker, similarity |-> similarity])
             ELSE bestMatch
        ELSE IF includes(domain, brokerBaseName) /\ Len(brokerBaseName) > 4
                /\ (bestMatch = None \/ FracGt(Fraction(8, 10), bestMatch[1].similarity))
        THEN Some([broker |-> broker, similarity |-> Fraction(8, 10)])
        ELSE bestMatch

\* what one directory entry makes of bestMatch: the edit-distance rule, then the
\* containment rule, both tried
fuzzyRules(domain, broker, bestMatch) ==
    LET similarity == calculateSimilarity(cleanDomainOf(domain), broker.domain)
        afterFuzzy ==
            IF FracGeq(similarity, Fraction(75, 100))
               /\ (bestMatch = None \/ FracGt(similarity, bestMatch[1].similarity))
            THEN Some([broker |-> broker, similarity |-> similarity])
            ELSE bestMatch
        brokerBaseName == brokerBaseNameOf(broker.domain)
    IN  IF includes(domain, brokerBaseName) /\ Len(brokerBaseName) > 4
           /\ (afterFuzzy = None \/ FracGt(Fraction(8, 10), afterFuzzy[1].similarity))
        THEN Some([broker |-> broker, similarity |-> Fraction(8, 10)])
        ELSE afterFuzzy

\* one iteration of the loop over the directory: st.returned is what a return
\* statement has returned, st.bestMatch the variable bestMatch
matchEntry(domain, broker, st) ==
    IF st.returned # None THEN st
    ELSE IF exactRule(domain, broker.domain)
    THEN [st EXCEPT !.returned = Some([broker |-> broker, similarity |-> Fraction(1, 1)])]
    ELSE IF exactRule(cleanDomainOf(domain), broker.domain)
    THEN [st EXCEPT !.returned = Some([broker |-> broker, similarity |-> Fraction(95, 100)])]
    ELSE [st EXCEPT !.bestMatch = fuzzyRules(domain, broker, st.bestMatch)]

\* the loop over the directory entries lo..hi
RECURSIVE matchEntries(_, _, _, _, _)
matchEntries(registry, domain, lo, hi, st) ==
    IF lo > hi THEN st
    ELSE IF lo = hi THEN matchEntry(domain, registry[lo], st)
    ELSE LET mid == (lo + hi) \div 2
         IN  TheOnly({matchEntries(registry, domain, mid + 1, hi, half) :
                          half \in {matchEntries(registry, domain, lo, mid, st)}})

findMatchingBroker(registry, domain) ==
    LET st == matchEntries(registry, domain, 1, Len(registry),
                           [returned |-> None, bestMatch |-> None])
    IN  IF st.returned # None THEN st.returned ELSE st.bestMatch

\* email.match(/@(.+)$/): what follows the first @, if anything does
extractDomain(email) ==
    LET ats == {i \in 1..(Len(email) - 1) : email[i] = "@"}
    IN  IF ats = {} THEN None
        ELSE Some(SubSeq(email, (CHOOSE i \in ats : \A k \in ats : i <= k) + 1, Len(email)))

brokerPatterns ==
    <<<<"l","o","g","i","s","t","i","c","s">>,
      <<"f","r","e","i","g","h","t">>,
      <<"t","r","a","n","s","p","o","r","t">>,
      <<"s","h","i","p","p","i","n","g">>,
      <<"c","a","r","g","o">>,
      <<"d","e","l","i","v","e","r","y">>,
      <<"c","a","r","r","i","e","r">>,
      <<"t","r","u","c","k","i","n","g">>,
      <<"b","r","o","k","e","r","a","g","e">>,
      <<"s","u","p","p","l","y","-","c","h","a","i","n">>,
      <<"s","u","p","p","l","y","c","h","a","i","n">>,
      <<"3","p","l">>>>

hasBrokerDomainPattern(domain) ==
    \E i \in 1..Len(brokerPatterns) : includes(domain, brokerPatterns[i])

TopLevelDomains == <<<<"c","o","m">>, <<"n","e","t">>, <<"o","r","g">>, <<"i","o">>, <<"c","o">>, <<"a","i">>>>

\* s.replace(/\bmail\b/gi, ''), from position i on
RECURSIVE removeMailWord(_, _)
removeMailWord(s, i) ==
    IF i > Len(s) THEN <<>>
    ELSE IF /\ i + 3 <= Len(s)
            /\ toLowerCase(SubSeq(s, i, i + 3)) = <<"m","a","i","l">>
            /\ (i = 1 \/ ~IsWordChar(s[i - 1]))
            /\ (i + 3 = Len(s) \/ ~IsWordChar(s[i + 4]))
         THEN removeMailWord(s, i + 4)
         ELSE <<s[i]>> \o removeMailWord(s, i + 1)

\* String.prototype.trim
RECURSIVE trim(_)
trim(s) ==
    IF s = <<>> THEN s
    ELSE IF Head(s) = " " THEN trim(Tail(s))
    ELSE IF s[Len(s)] = " " THEN trim(SubSeq(s, 1, Len(s) - 1))
    ELSE s

\* the domain without its ending, - and _ as spaces, the word mail removed, trimmed,
\* every word capitalised
formatDomainAsName(domain) ==
    LET tld == {i \in 1..Len(TopLevelDomains) : endsWith(domain, Dot \o TopLevelDomains[i])}
        stem == IF tld = {} THEN domain
                ELSE LET i == CHOOSE k \in tld :
                                 \A h \in tld : Len(TopLevelDomains[k]) >= Len(TopLevelDomains[h])
                     IN  SubSeq(domain, 1, Len(domain) - Len(TopLevelDomains[i]) - 1)
        spaced == [i \in 1..Len(stem) |-> IF stem[i] \in {"-", "_"} THEN " " ELSE stem[i]]
    IN  TitleCaseWords(trim(removeMailWord(spaced, 1)))

NotABroker ==
    [isBroker |-> FALSE, brokerName |-> None, brokerType |-> None, confidence |-> "low",
     similarityScore |-> None]

\* the confidence lowered to medium for every match
identifyBroker_neverHigh(registry, fromEmail) ==
    IF fromEmail = <<>> THEN NotABroker
    ELSE LET domain == extractDomain(toLowerCase(fromEmail))
         IN  IF domain = None THEN NotABroker
             ELSE LET match == findMatchingBroker(registry, domain[1])
                  IN  IF match # None
                      THEN [isBroker |-> TRUE,
                            brokerName |-> Some(match[1].broker.name),
                            brokerType |-> Some(match[1].broker.type),
                            confidence |-> "medium",
                            similarityScore |-> Some(match[1].similarity)]
                      ELSE NotABroker

identifyBroker(registry, fromEmail) ==
    IF fromEmail = <<>> THEN NotABroker
    ELSE LET domain == extractDomain(toLowerCase(fromEmail))
         IN  IF domain = None THEN NotABroker
             ELSE LET match == findMatchingBroker(registry, domain[1])
                  IN  IF match # None
                      THEN [isBroker |-> TRUE,
                            brokerName |-> Some(match[1].broker.name),
                            brokerType |-> Some(match[1].broker.type),
                            confidence |->
                                IF FracGeq(match[1].similarity, Fraction(95, 100)) THEN "high"
                                ELSE IF FracGeq(match[1].similarity, Fraction(80, 100))
                                THEN "medium" ELSE "low",
                            similarityScore |-> Some(match[1].similarity)]
                      ELSE IF hasBrokerDomainPattern(domain[1])
                      THEN [isBroker |-> TRUE,
                            brokerName |-> Some(formatDomainAsName(domain[1])),
                            brokerType |-> Some("unknown"),
                            confidence |-> "medium",
                            similarityScore |-> None]
                      ELSE NotABroker

\* subject and body are abstracted to what analyzeContent finds in them: the number
\* of BROKER_KEYWORDS that occur, whether a state code, a freight city and a subject
\* pattern match
\* analyzeContent with a subject pattern that weighs no more than a hub city
analyzeContent_lightSubject(content) ==
    LET score == content.matchedKeywords
                 + (IF content.subjectMatches THEN 1 ELSE 0)
                 + (IF content.hasStateReferences THEN 2 ELSE 0)
                 + (IF content.hasCityReferences THEN 1 ELSE 0)
    IN  [hasBrokerKeywords |-> score >= 2,
         matchedKeywords |-> content.matchedKeywords,
         hasStateReferences |-> content.hasStateReferences,
         hasCityReferences |-> content.hasCityReferences,
         subjectMatches |-> content.subjectMatches,
         score |-> score]

analyzeContent(content) ==
    LET score == content.matchedKeywords
                 + (IF content.subjectMatches THEN 3 ELSE 0)
                 + (IF content.hasStateReferences THEN 2 ELSE 0)
                 + (IF content.hasCityReferences THEN 1 ELSE 0)
    IN  [hasBrokerKeywords |-> score >= 2,
         matchedKeywords |-> content.matchedKeywords,
         hasStateReferences |-> content.hasStateReferences,
         hasCityReferences |-> content.hasCityReferences,
         subjectMatches |-> content.subjectMatches,
         score |-> score]

\* the subject-pattern rules moved below the domain-medium rule
decide_mediumFirst(domainCheck, contentCheck) ==
    IF domainCheck.isBroker /\ domainCheck.confidence = "high"
    THEN [isBroker |-> TRUE, brokerName |-> domainCheck.brokerName, confidence |-> "high",
          reasoning |-> "Known broker domain"]
    ELSE IF domainCheck.confidence = "medium" /\ contentCheck.hasBrokerKeywords
    THEN [isBroker |-> TRUE, brokerName |-> domainCheck.brokerName, confidence |-> "medium",
          reasoning |-> "Broker-like domain"]
    ELSE IF contentCheck.subjectMatches /\ contentCheck.score >= 4
    THEN [isBroker |-> TRUE, brokerName |-> domainCheck.brokerName, confidence |-> "high",
          reasoning |-> "Strong broker patterns"]
    ELSE IF ~domainCheck.isBroker /\ contentCheck.score >= 4
    THEN [isBroker |-> TRUE, brokerName |-> None, confidence |-> "medium",
          reasoning |-> "Strong freight content"]
    ELSE IF contentCheck.subjectMatches /\ contentCheck.score >= 2
    THEN [isBroker |-> TRUE, brokerName |-> None, confidence |-> "medium",
          reasoning |-> "Broker subject pattern"]
    ELSE [isBroker |-> FALSE, brokerName |-> None, confidence |-> "low",
          reasoning |-> "No strong broker indicators"]

\* the ordered rules of isLikelyBrokerEmail; of a reasoning only its fixed opening
\* words are kept
decide(domainCheck, contentCheck) ==
    IF domainCheck.isBroker /\ domainCheck.confidence = "high"
    THEN [isBroker |-> TRUE, brokerName |-> domainCheck.brokerName, confidence |-> "high",
          reasoning |-> "Known broker domain"]
    ELSE IF contentCheck.subjectMatches /\ contentCheck.score >= 4
    THEN [isBroker |-> TRUE, brokerName |-> domainCheck.brokerName, confidence |-> "high",
          reasoning |-> "Strong broker patterns"]
    ELSE IF /\ contentCheck.subjectMatches /\ contentCheck.hasStateReferences
            /\ contentCheck.matchedKeywords >= 2
    THEN [isBroker |-> TRUE, brokerName |-> domainCheck.brokerName, confidence |-> "high",
          reasoning |-> "Broker subject + locations"]
    ELSE IF domainCheck.confidence = "medium" /\ contentCheck.hasBrokerKeywords
    THEN [isBroker |-> TRUE, brokerName |-> domainCheck.brokerName, confidence |-> "medium",
          reasoning |-> "Broker-like domain"]
    ELSE IF ~domainCheck.isBroker /\ contentCheck.score >= 4
    THEN [isBroker |-> TRUE, brokerName |-> None, confidence |-> "medium",
          reasoning |-> "Strong freight content"]
    ELSE IF contentCheck.subjectMatches /\ contentCheck.score >= 2
    THEN [isBroker |-> TRUE, brokerName |-> None, confidence |-> "medium",
          reasoning |-> "Broker subject pattern"]
    ELSE [isBroker |-> FALSE, brokerName |-> None, confidence |-> "low",
          reasoning |-> "No strong broker indicators"]

isLikelyBrokerEmail(registry, fromEmail, content) ==
    decide(identifyBroker(registry, fromEmail), analyzeContent(content))

\* the entry pushed without looking for its domain
addCustomBroker_alwaysPush(registry, broker) == Append(registry, broker)

\* KNOWN_BROKERS.find(b => b.domain === broker.domain) ? unchanged : pushed
addCustomBroker(registry, broker) ==
    IF \E i \in 1..Len(registry) : registry[i].domain = broker.domain
    THEN registry
    ELSE Append(registry, broker)

(***************************************************************************)
(* The store and the sync runs, before anything has happened               *)
(***************************************************************************)
AcmeLogistics == "Acme Logistics"
BoltFreight == "Bolt Freight"
Brokers == {AcmeLogistics, BoltFreight}

\* a manual sync (POST /api/sync/:accountId) and a scheduled sync cycle
Procs == {"manual", "scheduled"}

\* no account is connected and nothing asks for a client
NoAuthCall == [pc |-> "idle", skipValidation |-> FALSE, refreshes |-> 0, calls |-> 0]

AccountIdle == emailAccount = None /\ authCall = NoAuthCall /\ dateNow = 0

Triggers == {"cron", "startup", "manual"}

NoCycle == [pc |-> "idle", accounts |-> 0, success |-> 0, failed |-> 0, threw |-> FALSE]

\* private static cronJob = null; private static isRunning = false
SchedulerIdle ==
    scheduler = [cronJob |-> FALSE, timer |-> FALSE, isRunning |-> FALSE,
                 cycle |-> [t \in Triggers |-> NoCycle]]

ServiceIdle == AccountIdle /\ SchedulerIdle

TablesInit ==
    /\ loadTable = <<>>
    /\ brokerStats = [b \in Brokers |-> None]
    /\ clock = 0
    /\ pc = [p \in Procs |-> "idle"]
    /\ local = [p \in Procs |-> None]
    /\ outcome = [p \in Procs |-> "none"]
    /\ basis = [b \in Brokers |-> None]
    /\ KNOWN_BROKERS = KNOWN_BROKERS_seed
    /\ syncJob = None

StoreInit == TablesInit /\ ServiceIdle

storeVars == <<loadTable, brokerStats, clock, pc, local, outcome, basis, faults>>
scoreVars == <<kind, inp, out, prev>>
authVars == <<emailAccount, authCall, dateNow>>
serviceVars == <<KNOWN_BROKERS, syncJob, authVars, scheduler>>

(***************************************************************************)
(* extractFromMessage, step by step: each action runs the call up to its   *)
(* next await on the store                                                 *)
(***************************************************************************)
MaxLoads == 2
MaxClock == 1
MaxFaults == 1

\* saved Message rows the sync runs hand to extractFromMessage
MsgAcmeDallas ==
    [id |-> "m1", from |-> "ops@acme.com",
     brokerCapture |-> Some(AcmeLogistics), fromName |-> Some("Acme Ops"),
     subject |-> <<"L","o","a","d"," ","o","f","f","e","r">>,
     body |-> <<"p","i","c","k"," ","u","p"," ","D","a","l","l","a","s"," ","r","a","t","e",":"," ","$","1","5","0","0">>,
     content |-> [loadNumberCaps |-> CapAt(5, 1, "12345"), rateCaps |-> CapAt(6, 1, 150000),
                  lane1 |-> Some([originCity |-> DALLAS, originState |-> TX,
                                  destCity |-> Tulsa, destState |-> OK]),
                  lane2 |-> None, milesCaps |-> CapAt(3, 1, 750),
                  text |-> <<"d","r","y"," ","v","a","n">>,
                  weightCaps |-> NoCaps(2), dateTokens |-> <<>>]]

MsgAcmeGeorgia ==
    [id |-> "m2", from |-> "dispatch@acme.com",
     brokerCapture |-> None, fromName |-> Some(AcmeLogistics),
     subject |-> <<"G","A"," ","t","o"," ","T","X">>,
     body |-> <<"D","e","l","i","v","e","r","y"," ","F","r","i","d","a","y">>,
     content |-> [loadNumberCaps |-> NoCaps(5), rateCaps |-> NoCaps(6),
                  lane1 |-> None,
                  lane2 |-> Some([originState |-> GA, destState |-> TX]),
                  milesCaps |-> NoCaps(3), text |-> <<>>,
                  weightCaps |-> NoCaps(2), dateTokens |-> <<>>]]

MsgBolt ==
    [id |-> "m3", from |-> "loads@bolt.com",
     brokerCapture |-> Some(BoltFreight), fromName |-> None,
     subject |-> <<"A","v","a","i","l","a","b","l","e"," ","l","o","a","d">>,
     body |-> <<"o","r","i","g","i","n"," ","D","a","l","l","a","s"," ","d","e","s","t","i","n","a","t","i","o","n"," ","A","t","l","a","n","t","a"," ","4","0","0"," ","m","i","l","e","s">>,
     content |-> [loadNumberCaps |-> NoCaps(5), rateCaps |-> CapAt(6, 6, 100000),
                  lane1 |-> Some([originCity |-> Dallas, originState |-> TX,
                                  destCity |-> Atlanta, destState |-> GA]),
                  lane2 |-> None, milesCaps |-> CapAt(3, 2, 400), text |-> <<>>,
                  weightCaps |-> NoCaps(2), dateTokens |-> <<>>]]

MsgNoBroker ==
    [id |-> "m4", from |-> "someone@example.com",
     brokerCapture |-> None, fromName |-> None,
     subject |-> <<>>,
     body |-> <<"r","a","t","e",":"," ","$","9","0","0"," ","3","0","0"," ","m","i","l","e","s">>,
     content |-> [loadNumberCaps |-> NoCaps(5), rateCaps |-> CapAt(6, 1, 90000),
                  lane1 |-> None, lane2 |-> None,
                  milesCaps |-> CapAt(3, 1, 300), text |-> <<>>,
                  weightCaps |-> NoCaps(2), dateTokens |-> <<>>]]

MsgNewsletter ==
    [id |-> "m5", from |-> "news@bolt.com",
     brokerCapture |-> Some(BoltFreight), fromName |-> None,
     subject |-> <<"B","o","l","t"," ","n","e","w","s","l","e","t","t","e","r">>,
     body |-> <<"p","i","c","k"," ","u","p"," ","d","e","l","i","v","e","r","y"," ","r","a","t","e",":"," ","$","9","0","0"," ","3","0","0"," ","m","i","l","e","s">>,
     content |-> [loadNumberCaps |-> NoCaps(5), rateCaps |-> CapAt(6, 1, 90000),
                  lane1 |-> None, lane2 |-> None,
                  milesCaps |-> CapAt(3, 1, 300), text |-> <<>>,
                  weightCaps |-> NoCaps(2), dateTokens |-> <<>>]]

\* a load offer by its keywords of which only the equipment and a load number can be read
MsgLowConfidence ==
    [id |-> "m6", from |-> "loads@bolt.com",
     brokerCapture |-> Some(BoltFreight), fromName |-> None,
     subject |-> <<"L","o","a","d"," ","o","f","f","e","r">>,
     body |-> <<"r","e","e","f","e","r"," ","e","q","u","i","p","m","e","n","t",":"," ","r","e","e","f","e","r">>,
     content |-> [loadNumberCaps |-> CapAt(5, 1, "12345"), rateCaps |-> NoCaps(6),
                  lane1 |-> None, lane2 |-> None,
                  milesCaps |-> NoCaps(3), text |-> <<"r","e","e","f","e","r">>,
                  weightCaps |-> NoCaps(2), dateTokens |-> <<>>]]

Messages ==
    {MsgAcmeDallas, MsgAcmeGeorgia, MsgBolt, MsgNoBroker, MsgNewsletter, MsgLowConfidence}

\* the broker pattern's capture in subject + ' ' + fromName, else fromName || null
extractBrokerName(message) ==
    IF message.brokerCapture # None THEN message.brokerCapture
    ELSE IF TruthyStr(message.fromName) THEN message.fromName
    ELSE None

\* originState ? (originCity ? `${originCity}, ${originState}` : originState) : null
placeOf(city, state) ==
    IF TruthyStr(state)
    THEN IF TruthyStr(city) THEN Some(city[1] \o CommaSpace \o state[1]) ELSE state
    ELSE None

\* the data extractFromMessage hands to prisma.load.create
loadDataRow(prefs, message, loadData) ==
    LET origin == placeOf(loadData.originCity, loadData.originState)
        destination == placeOf(loadData.destCity, loadData.destState)
        scoring == calculatePriorityScore(prefs,
                       [origin |-> origin, destination |-> destination,
                        distance |-> loadData.miles, ratePerMile |-> loadData.ratePerMile,
                        equipment |-> loadData.equipment])
    IN  [messageId |-> message.id,
         origin |-> origin,
         destination |-> destination,
         distance |-> loadData.miles,
         totalRate |-> loadData.rate,
         ratePerMile |-> loadData.ratePerMile,
         equipment |-> loadData.equipment,
         broker |-> extractBrokerName(message),
         brokerEmail |-> message.from,
         priorityScore |-> scoring.score,
         fitReason |-> scoring.reason]

\* what extractFromMessage derives from each message before it touches the store
\* (a function of the message alone)
Extracted ==
    [m \in Messages |->
        LET loadData == extractLoad(m.content)
        IN  IF ~isLoadOffer(m.subject, m.body) \/ loadData = None \/ loadData[1].confidence < 25
            THEN None
            ELSE Some(loadDataRow(COMPANY_PREFERENCES, m, loadData[1]))]

\* the early return extractFromMessage takes for each message: at the pre-filter
\* (line 389), at the confidence test (line 401), or none
Skipped ==
    [m \in Messages |->
        LET loadData == extractLoad(m.content)
        IN  IF ~isLoadOffer(m.subject, m.body) THEN "filter"
            ELSE IF loadData = None \/ loadData[1].confidence < 25 THEN "confidence"
            ELSE "none"]

\* prisma.load.create: the store stamps extractedAt (DEFAULT CURRENT_TIMESTAMP)
createLoad(table, data, now) == Append(table, data @@ [extractedAt |-> now])

\* the locals of a call of extractFromMessage
Locals(broker, inserted, skipped) ==
    [broker |-> broker, inserted |-> inserted, skipped |-> skipped,
     now |-> 0, allLoads |-> <<>>, computed |-> None, failedAt |-> "none"]

\* the call with its catch blocks rethrowing: the promise rejects when a step failed
Finish_rethrow(p, l) ==
    /\ pc' = [pc EXCEPT ![p] = "done"]
    /\ local' = [local EXCEPT ![p] =
          Some([l EXCEPT !.now = 0, !.allLoads = <<>>, !.computed = None])]
    /\ outcome' = [outcome EXCEPT ![p] = IF l.failedAt = "none" THEN "resolved" ELSE "rejected"]

\* the call returns: both try/catch blocks swallow what was thrown, so the promise
\* resolves; of the locals only what the run did is remembered
Finish(p, l) ==
    /\ pc' = [pc EXCEPT ![p] = "done"]
    /\ local' = [local EXCEPT ![p] =
          Some([l EXCEPT !.now = 0, !.allLoads = <<>>, !.computed = None])]
    /\ outcome' = [outcome EXCEPT ![p] = "resolved"]

\* a store call may throw (the store is unavailable)
MayFail(fails) ==
    /\ fails => faults > 0
    /\ faults' = IF fails THEN faults - 1 ELSE faults

\* lines 385-451: the pre-filter, extractLoad, the scoring and prisma.load.create
Extract(p) ==
    /\ pc[p] \in {"idle", "done"}
    /\ Len(loadTable) < MaxLoads
    /\ \E message \in Messages, fails \in BOOLEAN :
         LET data == Extracted[message]
             broker == extractBrokerName(message)
         IN  IF data = None
             THEN /\ ~fails
                  /\ UNCHANGED faults
                  /\ Finish(p, Locals(None, FALSE, Skipped[message]))
                  /\ UNCHANGED loadTable
             ELSE IF fails
             THEN /\ MayFail(fails)
                  /\ Finish(p, [Locals(broker, FALSE, "none") EXCEPT !.failedAt = "create"])
                  /\ UNCHANGED loadTable
             ELSE /\ MayFail(fails)
                  /\ loadTable' = createLoad(loadTable, data[1], clock)
                  /\ IF broker # None
                     THEN /\ pc' = [pc EXCEPT ![p] = "findMany"]
                          /\ local' = [local EXCEPT ![p] = Some(Locals(broker, TRUE, "none"))]
                          /\ outcome' = [outcome EXCEPT ![p] = "none"]
                     ELSE Finish(p, Locals(broker, TRUE, "none"))
    /\ UNCHANGED <<brokerStats, clock, basis, scoreVars, serviceVars>>

\* every order of the rows of a sequence
Orders(rows) ==
    LET n == Len(rows)
        bij == {f \in [1..n -> 1..n] : \A i, j \in 1..n : f[i] = f[j] => i = j}
    IN  {[i \in 1..n |-> rows[f[i]]] : f \in bij}

\* lines 551-620: prisma.load.findMany({ where: { broker } }) has no orderBy, so
\* the rows come in an order the store chooses; the statistics are computed from them
FindMany(p) ==
    /\ pc[p] = "findMany"
    /\ \E fails \in BOOLEAN :
         LET l == local[p][1]
             rows == SelectSeq(loadTable, LAMBDA r : r.broker = l.broker)
         IN  /\ MayFail(fails)
             /\ IF fails
                THEN Finish(p, [l EXCEPT !.failedAt = "findMany"])
                ELSE \E allLoads \in Orders(rows) :
                    IF Len(allLoads) = 0
                    THEN Finish(p, l)
                    ELSE /\ pc' = [pc EXCEPT ![p] = "findUnique"]
                         /\ local' = [local EXCEPT ![p] =
                               Some([l EXCEPT !.now = clock, !.allLoads = allLoads,
                                     !.computed = Some(computeStats(COMPANY_PREFERENCES,
                                                         l.broker[1], allLoads, clock))])]
                         /\ UNCHANGED outcome
    /\ UNCHANGED <<loadTable, brokerStats, clock, basis, scoreVars, serviceVars>>

\* lines 623-625: prisma.brokerStats.findUnique; its result is not used
FindUnique(p) ==
    /\ pc[p] = "findUnique"
    /\ \E fails \in BOOLEAN :
         /\ MayFail(fails)
         /\ IF fails
            THEN Finish(p, [local[p][1] EXCEPT !.failedAt = "findUnique"])
            ELSE /\ pc' = [pc EXCEPT ![p] = "upsert"]
                 /\ UNCHANGED <<local, outcome>>
    /\ UNCHANGED <<loadTable, brokerStats, clock, basis, scoreVars, serviceVars>>

\* lines 627-663: prisma.brokerStats.upsert; an error is caught and logged
Upsert(p) ==
    /\ pc[p] = "upsert"
    /\ \E fails \in BOOLEAN :
         LET l == local[p][1]
             b == l.broker[1]
         IN  /\ MayFail(fails)
             /\ IF fails
                THEN /\ Finish(p, [l EXCEPT !.failedAt = "upsert"])
                     /\ UNCHANGED <<brokerStats, basis>>
                ELSE /\ brokerStats' = [brokerStats EXCEPT ![b] = upsertRow(@, l.computed[1])]
                     /\ basis' = [basis EXCEPT ![b] = Some([allLoads |-> l.allLoads, now |-> l.now])]
                     /\ Finish(p, l)
    /\ UNCHANGED <<loadTable, clock, scoreVars, serviceVars>>

\* time passes
Tick ==
    /\ clock < MaxClock
    /\ clock' = clock + 1
    /\ UNCHANGED <<loadTable, brokerStats, pc, local, outcome, basis, faults, scoreVars, serviceVars>>

\* a healthy store
InitStats ==
    /\ StoreInit
    /\ faults = 0
    /\ kind = "none" /\ inp = None /\ out = None /\ prev = None

\* a store that is going to be unavailable for some of its calls
InitOutage ==
    /\ StoreInit
    /\ faults = MaxFaults
    /\ kind = "none" /\ inp = None /\ out = None /\ prev = None

NextStats ==
    \/ \E p \in Procs : Extract(p)
    \/ \E p \in Procs : FindMany(p)
    \/ \E p \in Procs : FindUnique(p)
    \/ \E p \in Procs : Upsert(p)
    \/ Tick

SpecStats == InitStats /\ [][NextStats]_vars

SpecOutage == InitOutage /\ [][NextStats]_vars

(***************************************************************************)
(* Claims about the broker statistics                                      *)
(***************************************************************************)
Quiescent == \A p \in Procs : pc[p] \in {"idle", "done"}

LoadsOf(b) == SelectSeq(loadTable, LAMBDA r : r.broker = Some(b))

\* C1: once the concurrent runs of extractFromMessage have finished, the stored
\* BrokerStats.totalLoads of every broker equals the number of Load rows stored for
\* that broker (no interleaving loses an update). Checked with a healthy store.
C1_NoLostUpdate ==
    Quiescent =>
        \A b \in Brokers :
            Len(LoadsOf(b)) > 0 =>
                /\ brokerStats[b] # None
                /\ brokerStats[b][1].totalLoads = Len(LoadsOf(b))

\* the step in which run p writes the BrokerStats row of broker b
UpsertStep(p, b) ==
    /\ pc[p] = "upsert" /\ pc'[p] = "done"
    /\ local[p][1].broker = Some(b)
    /\ local[p][1].failedAt = "none" /\ local'[p][1].failedAt = "none"

\* C2: updateBrokerStats run again over the load history the stored row was computed
\* from (the same rows in the same order) leaves every field of the row as it was.
C2_Idempotent ==
    [][\A p \in Procs, b \in Brokers :
          (/\ UpsertStep(p, b)
           /\ basis[b] # None
           /\ basis[b][1].allLoads = local[p][1].allLoads)
          => brokerStats'[b] = brokerStats[b]]_vars

\* C3: updateBrokerStats run over another ordering of the loads the stored row was
\* computed from, at the same time, produces the same row.
C3_OrderIndependent ==
    [][\A p \in Procs, b \in Brokers :
          (/\ UpsertStep(p, b)
           /\ basis[b] # None
           /\ local[p][1].allLoads \in Orders(basis[b][1].allLoads)
           /\ local[p][1].now = basis[b][1].now)
          => brokerStats'[b] = brokerStats[b]]_vars

\* C4: after updateBrokerStats has written a broker's row, every field of the row is
\* what the load history it read determines; nothing is left of the row stored before.
C4_FullReplace ==
    \A b \in Brokers :
        basis[b] # None =>
            /\ brokerStats[b] # None
            /\ brokerStats[b][1] = computeStats(COMPANY_PREFERENCES, b,
                                                basis[b][1].allLoads, basis[b][1].now)

\* C5: when a store call of the aggregation (findMany, findUnique or the upsert)
\* fails, the caller of extractFromMessage sees an error, and no Load of the broker
\* is left stored without the broker's BrokerStats accounting for it. Checked with a
\* store that fails.
C5_FailureSurfaced ==
    \A p \in Procs :
        (/\ pc[p] = "done"
         /\ local[p][1].failedAt \in {"findMany", "findUnique", "upsert"})
        => /\ outcome[p] = "rejected"
           /\ LET b == local[p][1].broker[1]
              IN  /\ brokerStats[b] # None
                  /\ brokerStats[b][1].totalLoads = Len(LoadsOf(b))

(***************************************************************************)
(* Scoring runs: one pure function applied to one input                    *)
(***************************************************************************)
MaxTotalLoads == 51

LoadNumberInputs ==
    {NoCaps(5), CapAt(5, 1, "12345"), CapsAt(5, 1, "AB", 5, "ABC1234")}

RateInputs ==
    {NoCaps(6), CapAt(6, 1, 150000), CapAt(6, 1, 1000000), CapAt(6, 6, 150049),
     CapAt(6, 3, 150051), CapsAt(6, 1, 20000, 6, 75000), CapAt(6, 2, 1500000)}

Lane1Inputs ==
    {None,
     Some([originCity |-> DALLAS, originState |-> <<"t","x">>,
           destCity |-> Tulsa, destState |-> OK]),
     Some([originCity |-> Dallas, originState |-> TZ,
           destCity |-> Atlanta, destState |-> GA])}

Lane2Inputs ==
    {None, Some([originState |-> GA, destState |-> TX]),
     Some([originState |-> TX, destState |-> TZ])}

MilesInputs ==
    {NoCaps(3), CapAt(3, 1, 750), CapAt(3, 1, 100), CapsAt(3, 1, 40, 2, 400), CapAt(3, 3, 3501)}

TextInputs ==
    {<<>>, <<"5","3"," ","D","r","y"," ","V","a","n">>, <<"r","e","e","f","e","r">>}

WeightInputs == {NoCaps(2), CapAt(2, 1, 42000)}

DateInputs == {<<>>, <<5>>, <<9, 5>>}

\* the contents on which an extractor is made to throw
ThrowInputs ==
    [content : [loadNumberCaps : {NoCaps(5), CapAt(5, 1, "12345")},
                rateCaps : {NoCaps(6), CapAt(6, 1, 150000)},
                lane1 : Lane1Inputs, lane2 : {None},
                milesCaps : {NoCaps(3), CapAt(3, 1, 750)},
                text : TextInputs, weightCaps : WeightInputs, dateTokens : DateInputs],
     thrownBy : FieldExtractors \cup {"none"}]

\* what the lane patterns capture: the city form, the labeled Origin: and
\* Destination: fields, the starred table form and the bare state form
LaneInputs ==
    [lane1 : Lane1Inputs \cup {Some([originCity |-> <<"L","o","a","d"," ","D","a","l","l","a","s">>, originState |-> TX,
                                      destCity |-> Tulsa, destState |-> OK])},
     labeled : {None,
                Some([originCity |-> Atlanta, originState |-> GA,
                      destCity |-> DALLAS, destState |-> <<"t","x">>]),
                Some([originCity |-> Tulsa, originState |-> OK,
                      destCity |-> Dallas, destState |-> TZ])},
     table : {None, Some([originCity |-> DALLAS, originState |-> TX,
                          destCity |-> <<"T","U","L","S","A">>, destState |-> OK])},
     lane2 : Lane2Inputs]

ContentInputs ==
    [loadNumberCaps : LoadNumberInputs, rateCaps : RateInputs, lane1 : Lane1Inputs,
     lane2 : Lane2Inputs, milesCaps : MilesInputs, text : TextInputs,
     weightCaps : WeightInputs, dateTokens : DateInputs]

\* the preferences of the fit-score example: states {TX, OK}, equipment {Dry Van}
ExamplePreferences ==
    [minRatePerMile |-> 200,
     preferredStates |-> <<TX, OK>>,
     preferredEquipment |-> <<DryVan>>,
     maxDistance |-> 500]

PrefsInputs == {COMPANY_PREFERENCES, ExamplePreferences}

PriorityLoadInputs ==
    [origin : {None, Some(Dallas \o CommaSpace \o TX), Some(TX), Some(Atlanta \o CommaSpace \o GA)},
     destination : {None, Some(Tulsa \o CommaSpace \o OK), Some(GA)},
     distance : {None} \cup {Some(d) : d \in {400, 500, 501, 750, 751}},
     ratePerMile : {None} \cup {Some(r) : r \in {0, 174, 175, 199, 200, 250, 299, 300, 1500}},
     equipment : {None, Some(DryVan), Some(<<"V","a","n">>), Some(Reefer),
                  Some(<<"F","l","a","t","b","e","d">>)}]

RelationshipInputs ==
    [totalLoads : {0},
     loadsThisMonth : {0, 1, 2, 5, 10},
     avgRatePerMile : {Fraction(0, 1), Fraction(175, 1), Fraction(200, 1), Fraction(449, 2),
                       Fraction(250, 1), Fraction(499, 2)},
     laneConsistency : {Fraction(0, 1), Fraction(1, 3), Fraction(1, 2), Fraction(2, 3),
                        Fraction(1, 1)}]

SubjectInputs ==
    {<<>>,
     <<"N","e","w","s","l","e","t","t","e","r">>,
     <<"L","o","a","d"," ","o","f","f","e","r">>}

BodyInputs ==
    {<<>>,
     <<"D","e","l","i","v","e","r","y">>,
     <<"p","i","c","k"," ","u","p">>,
     <<"r","a","t","e",":"," ","$","9","0","0"," ","3","0","0"," ","m","i","l","e","s">>,
     <<"u","n","s","u","b","s","c","r","i","b","e"," ","p","i","c","k"," ","d","e","l">>,
     <<"W","e","e","k","l","y"," ","T","r","u","c","k","i","n","g"," ","N","e","w","s"," ","d","e","l","i","v","e","r","y"," ","m","i","l","e","s">>}

InitScore ==
    /\ StoreInit
    /\ faults = 0
    /\ \/ kind = "extractLoad" /\ inp \in ContentInputs
       \/ kind = "extractLoadCaught" /\ inp \in ThrowInputs
       \/ kind \in {"extractLane", "script_extractLane"} /\ inp \in LaneInputs
       \/ kind \in {"isLoadOffer", "script_isLoadOffer"}
          /\ inp \in [subject : SubjectInputs, body : BodyInputs]
       \/ kind = "calculatePriorityScore" /\ inp \in [prefs : PrefsInputs, load : PriorityLoadInputs]
       \/ kind = "calculateRelationshipScore"
          /\ inp \in [prefs : {COMPANY_PREFERENCES}, stats : RelationshipInputs]
    /\ out = None
    /\ prev = None

ApplyExtractLoad ==
    /\ kind = "extractLoad"
    /\ out = None
    /\ out' = Some(extractLoad(inp))
    /\ UNCHANGED <<serviceVars, storeVars, kind, inp, prev>>

ApplyExtractLoadCaught ==
    /\ kind = "extractLoadCaught"
    /\ out = None
    /\ out' = Some(extractLoadCaught(inp.content, inp.thrownBy))
    /\ UNCHANGED <<serviceVars, storeVars, kind, inp, prev>>

ApplyExtractLane ==
    /\ kind = "extractLane"
    /\ out = None
    /\ out' = Some(extractLane(inp))
    /\ UNCHANGED <<serviceVars, storeVars, kind, inp, prev>>

ApplyScriptExtractLane ==
    /\ kind = "script_extractLane"
    /\ out = None
    /\ out' = Some(script_extractLane(inp))
    /\ UNCHANGED <<serviceVars, storeVars, kind, inp, prev>>

ApplyIsLoadOffer ==
    /\ kind = "isLoadOffer"
    /\ out = None
    /\ out' = Some(isLoadOffer(inp.subject, inp.body))
    /\ UNCHANGED <<serviceVars, storeVars, kind, inp, prev>>

ApplyScriptIsLoadOffer ==
    /\ kind = "script_isLoadOffer"
    /\ out = None
    /\ out' = Some(script_isLoadOffer(inp.subject, inp.body))
    /\ UNCHANGED <<serviceVars, storeVars, kind, inp, prev>>

ApplyPriorityScore ==
    /\ kind = "calculatePriorityScore"
    /\ out = None
    /\ out' = Some(calculatePriorityScore(inp.prefs, inp.load))
    /\ UNCHANGED <<serviceVars, storeVars, kind, inp, prev>>

ApplyRelationshipScore ==
    /\ kind = "calculateRelationshipScore"
    /\ out = None
    /\ out' = Some(calculateRelationshipScore(inp.prefs, inp.stats))
    /\ UNCHANGED <<serviceVars, storeVars, kind, inp, prev>>

\* the same broker with one more load: the score is computed again
NextTotalLoads ==
    /\ kind = "calculateRelationshipScore"
    /\ out # None
    /\ inp.stats.totalLoads < MaxTotalLoads
    /\ inp' = [inp EXCEPT !.stats.totalLoads = @ + 1]
    /\ prev' = out
    /\ out' = Some(calculateRelationshipScore(inp'.prefs, inp'.stats))
    /\ UNCHANGED <<serviceVars, storeVars, kind>>

NextScore ==
    \/ ApplyExtractLoad
    \/ ApplyExtractLoadCaught
    \/ ApplyExtractLane
    \/ ApplyScriptExtractLane
    \/ ApplyIsLoadOffer
    \/ ApplyScriptIsLoadOffer
    \/ ApplyPriorityScore
    \/ ApplyRelationshipScore
    \/ NextTotalLoads

SpecScore == InitScore /\ [][NextScore]_vars


(***************************************************************************)
(* Claims about extraction and scoring, checked under SpecScore            *)
(***************************************************************************)
ExtractedLoad == kind = "extractLoad" /\ out # None /\ out[1] # None
PriorityScored == kind = "calculatePriorityScore" /\ out # None
RelationshipScored == kind = "calculateRelationshipScore" /\ out # None

\* C6: in every load extractLoad returns, ratePerMile is present only if rate and
\* miles are present, it is rate / miles rounded to cents and it is at most 15.00;
\* when the rounded rate per mile exceeds 15.00 (rate / miles >= 15.005) ratePerMile
\* is absent, not capped, and rate and miles are kept.
C6_RatePerMileCeiling ==
    ExtractedLoad =>
        LET l == out[1][1]
        IN  /\ l.ratePerMile # None =>
                /\ l.rate # None /\ l.miles # None
                /\ 2 * l.ratePerMile[1] * l.miles[1] - l.miles[1] <= 2 * l.rate[1]
                /\ 2 * l.rate[1] < 2 * l.ratePerMile[1] * l.miles[1] + l.miles[1]
                /\ l.ratePerMile[1] <= 1500
            /\ (l.rate # None /\ l.miles # None /\ 2 * l.rate[1] >= 3001 * l.miles[1]) =>
                /\ l.ratePerMile = None
                /\ l.rate = extractRate(inp)
                /\ extractMiles(inp) # None => l.miles = extractMiles(inp)

\* C6 witness: rate 10,000 dollars over 100 miles is returned without ratePerMile
C6_Witness_Dropped ==
    /\ ExtractedLoad
    /\ out[1][1].rate = Some(1000000)
    /\ out[1][1].miles = Some(100)
    /\ out[1][1].ratePerMile = None

\* C7: every score lies in [0,100]: the extraction confidence, the priority score
\* and the relationship score (a fraction num / den with laneConsistency in [0,1]).
C7_ScoresInRange ==
    /\ ExtractedLoad => out[1][1].confidence >= 0 /\ out[1][1].confidence <= 100
    /\ PriorityScored => out[1].score >= 0 /\ out[1].score <= 100
    /\ RelationshipScored => out[1].num >= 0 /\ out[1].num <= 100 * out[1].den

\* C7 witness: a load with every field present has confidence exactly 100
C7_Witness_FullConfidence ==
    /\ ExtractedLoad
    /\ out[1][1].confidence = 100

\* C8: a load at exactly minRatePerMile, with origin and destination states both
\* preferred, preferred equipment and miles within maxDistance scores
\* 25 + 30 + 20 + 10 = 85.
C8_ExampleScores85 ==
    (/\ PriorityScored
     /\ inp.load.ratePerMile = Some(inp.prefs.minRatePerMile)
     /\ inp.load.origin \in {Some(TX), Some(Dallas \o CommaSpace \o TX)}
     /\ inp.load.destination = Some(Tulsa \o CommaSpace \o OK)
     /\ inp.load.equipment = Some(DryVan)
     /\ inp.load.distance \in {Some(400), Some(500)})
    => out[1].score = 85

\* C8 witness: the example itself (states {TX, OK}, Dry Van, 500; TX to OK, 2.00, 400)
C8_Witness_Example ==
    /\ PriorityScored
    /\ inp.prefs = ExamplePreferences
    /\ inp.load = [origin |-> Some(TX), destination |-> Some(Tulsa \o CommaSpace \o OK),
                   distance |-> Some(400), ratePerMile |-> Some(200),
                   equipment |-> Some(DryVan)]
    /\ out[1].score = 85

\* a load that can only score on its rate
RateOnlyLoad ==
    /\ PriorityScored
    /\ inp.load.origin = None /\ inp.load.destination = None
    /\ inp.load.distance = None /\ inp.load.equipment = None

\* C9 as claimed: the rate component is 40 from minRatePerMile + 1, interpolates
\* linearly from 25 to 40 between minRatePerMile and minRatePerMile + 1, is 10 within
\* 0.25 below minRatePerMile and 0 otherwise.
C9_Original_LinearPartial ==
    RateOnlyLoad =>
        LET r == inp.load.ratePerMile
            m == inp.prefs.minRatePerMile
        IN  IF r = None THEN out[1].score = 0
            ELSE IF r[1] >= m + 100 THEN out[1].score = 40
            ELSE IF r[1] >= m THEN 100 * out[1].score = 2500 + 15 * (r[1] - m)
            ELSE IF r[1] >= m - 25 THEN out[1].score = 10
            ELSE out[1].score = 0

\* C9 amended: the rate component is 40 from minRatePerMile + 1, a constant 25 from
\* minRatePerMile up to minRatePerMile + 1 (no interpolation), 10 within 0.25 below
\* minRatePerMile and 0 otherwise or when ratePerMile is absent.
C9_RateTiers ==
    RateOnlyLoad =>
        LET r == inp.load.ratePerMile
            m == inp.prefs.minRatePerMile
        IN  IF r = None THEN out[1].score = 0
            ELSE IF r[1] >= m + 100 THEN out[1].score = 40
            ELSE IF r[1] >= m THEN out[1].score = 25
            ELSE IF r[1] >= m - 25 THEN out[1].score = 10
            ELSE out[1].score = 0

\* C9 witness: a rate strictly inside the interval scores the flat 25
C9_Witness_InsideInterval ==
    /\ RateOnlyLoad
    /\ inp.load.ratePerMile = Some(250)
    /\ out[1].score = 25

\* C10: with loadsThisMonth, avgRatePerMile and laneConsistency fixed, the score for
\* totalLoads + 1 is at least the score for totalLoads, and it lies in [0,100].
C10_MonotoneInTotalLoads ==
    (RelationshipScored /\ prev # None) =>
        /\ prev[1].den = out[1].den
        /\ prev[1].num <= out[1].num
        /\ out[1].num >= 0 /\ out[1].num <= 100 * out[1].den

\* C10 witness: the step across the 9/10 tier boundary has been taken
C10_Witness_TierBoundary ==
    /\ RelationshipScored
    /\ prev # None
    /\ inp.stats.totalLoads = 10
    /\ prev[1].num < out[1].num

(***************************************************************************)
(* The broker directory in use: entries are added, and a sender is         *)
(* identified against the directory as it stands (one identification is    *)
(* followed per behaviour; its result depends on the directory and the     *)
(* arguments only)                                                         *)
(***************************************************************************)
MaxCustomBrokers == 2

CustomBrokerInputs ==
    {[name |-> "Hub LLC", type |-> "regional", domain |-> <<"h","u","b","g","r","o","u","p","l","l","c",".","c","o","m">>],
     [name |-> "Hub Group Copy", type |-> "major", domain |-> <<"h","u","b","g","r","o","u","p",".","c","o","m">>],
     [name |-> "Lone Star", type |-> "regional", domain |-> <<"l","o","n","e","s","t","a","r",".","i","o">>]}

FromEmailInputs ==
    {<<"d","i","s","p","a","t","c","h","@","h","u","b","g","r","o","u","p",".","c","o","m">>,
     <<"O","p","s","@","L","o","a","d","s",".","H","u","b","G","r","o","u","p",".","c","o","m">>,
     <<"n","o","r","e","p","l","y","@","m","a","i","l",".","h","u","b","g","r","o","u","p",".","c","o","m">>,
     <<"a","@","l","a","n","d","s","t","a","r","l","i","n","e",".","c","o","m">>,
     <<"a","@","l","a","n","d","s","t","a","r","s",".","c","o","m">>,
     <<"a","@","c","h","r","o","b","n","s","e","n",".","c","o">>,
     <<"s","a","l","e","s","@","h","u","b","g","r","o","u","p","l","l","c",".","c","o","m">>,
     <<"b","o","b","@","a","c","m","e","-","f","r","e","i","g","h","t",".","c","o","m">>,
     <<"j","a","n","e","@","g","m","a","i","l",".","c","o","m">>,
     <<>>,
     <<"n","o","-","a","t","-","s","i","g","n">>}

ContentCheckInputs ==
    [matchedKeywords : {0, 1, 2, 4}, hasStateReferences : BOOLEAN,
     hasCityReferences : BOOLEAN, subjectMatches : BOOLEAN]

AddCustomBroker ==
    /\ kind \in {"none", "addCustomBroker"}
    /\ Len(KNOWN_BROKERS) < Len(KNOWN_BROKERS_seed) + MaxCustomBrokers
    /\ \E broker \in CustomBrokerInputs :
         /\ KNOWN_BROKERS' = addCustomBroker(KNOWN_BROKERS, broker)
         /\ kind' = "addCustomBroker"
         /\ inp' = Some(broker)
         /\ prev' = Some(KNOWN_BROKERS)
    /\ UNCHANGED <<storeVars, out, syncJob, authVars, scheduler>>

IdentifyBroker ==
    /\ kind \in {"none", "addCustomBroker"}
    /\ \E fromEmail \in FromEmailInputs :
         /\ kind' = "identifyBroker"
         /\ inp' = Some([fromEmail |-> fromEmail])
         /\ out' = Some(identifyBroker(KNOWN_BROKERS, fromEmail))
    /\ UNCHANGED <<storeVars, prev, serviceVars>>

\* out is the result with the local domainCheck kept beside it
IsLikelyBrokerEmail ==
    /\ kind \in {"none", "addCustomBroker"}
    /\ \E fromEmail \in FromEmailInputs :
         \E domainCheck \in {identifyBroker(KNOWN_BROKERS, fromEmail)} :
           \E content \in ContentCheckInputs :
               /\ kind' = "isLikelyBrokerEmail"
               /\ inp' = Some([fromEmail |-> fromEmail, content |-> content])
               /\ out' = Some(decide(domainCheck, analyzeContent(content))
                              @@ [domainCheck |-> domainCheck])
    /\ UNCHANGED <<storeVars, prev, serviceVars>>

NextBroker ==
    \/ AddCustomBroker
    \/ IdentifyBroker
    \/ IsLikelyBrokerEmail

SpecBroker == InitStats /\ [][NextBroker]_vars

(***************************************************************************)
(* The extraction functions and the message pipeline together: a state is  *)
(* either an application of a pure function or a state of the store        *)
(***************************************************************************)
InitPipeline == InitScore \/ InitStats

NextPipeline ==
    \/ NextScore
    \/ kind = "none" /\ NextStats

SpecPipeline == InitPipeline /\ [][NextPipeline]_vars

(***************************************************************************)
(* Claims about extraction and the pre-filter, checked under SpecPipeline  *)
(***************************************************************************)
Weight(present, w) == IF present THEN w ELSE 0

\* the weights of the fields a returned load holds
WeightsOfLoad(l) ==
      Weight(l.originState # None /\ l.destState # None, 30)
    + Weight(l.rate # None, 25)
    + Weight(l.miles # None, 20)
    + Weight(l.equipment # None, 10)
    + Weight(l.loadNumber # None, 5)
    + Weight(l.weight # None, 5)
    + Weight(l.pickupDate # None, 3)
    + Weight(l.deliveryDate # None, 2)

\* the weights of the fields that can be read from a content (miles read, or looked
\* up for the lane)
FieldWeights(content) ==
    LET lane == extractLane(content)
    IN    Weight(lane # None, 30)
        + Weight(extractRate(content) # None, 25)
        + Weight(\/ extractMiles(content) # None
                 \/ /\ lane # None
                    /\ calculateDistance(lane[1].originCity, lane[1].originState,
                                         lane[1].destCity, lane[1].destState) # None, 20)
        + Weight(extractEquipment(content) # None, 10)
        + Weight(extractLoadNumber(content) # None, 5)
        + Weight(extractWeight(content) # None, 5)
        + Weight(extractDates(content).pickupDate # None, 3)
        + Weight(extractDates(content).deliveryDate # None, 2)

MessageOf(row) == CHOOSE m \in Messages : m.id = row.messageId

\* C11: the confidence of a returned load is the sum of the weights of the fields it
\* holds (lane 30, rate 25, miles 20, equipment 10, loadNumber 5, weight 5, pickupDate
\* 3, deliveryDate 2); extractLoad returns none exactly when that sum is below 25; a
\* load with lane, rate and miles has confidence >= 75; and every stored Load comes
\* from a message whose sum is at least 25.
C11_ConfidenceWeights ==
    /\ (kind = "extractLoad" /\ out # None) =>
          /\ out[1] = None <=> FieldWeights(inp) < 25
          /\ out[1] # None =>
                LET l == out[1][1]
                IN  /\ l.confidence = WeightsOfLoad(l)
                    /\ l.confidence = FieldWeights(inp)
                    /\ (l.originState # None /\ l.rate # None /\ l.miles # None)
                           => l.confidence >= 75
    /\ \A i \in 1..Len(loadTable) : FieldWeights(MessageOf(loadTable[i]).content) >= 25
    /\ \A p \in Procs :
          (local[p] # None /\ local[p][1].skipped = "confidence") => ~local[p][1].inserted

\* C11 witness: a message of confidence 15 has been turned away at the confidence
\* test while the Load of a message with lane, rate and miles is stored
C11_Witness_Rejected ==
    /\ \E p \in Procs : pc[p] = "done" /\ local[p][1].skipped = "confidence"
    /\ FieldWeights(MsgLowConfidence.content) = 15
    /\ \E i \in 1..Len(loadTable) :
          /\ loadTable[i].messageId = MsgAcmeDallas.id
          /\ FieldWeights(MsgAcmeDallas.content) >= 75

ValidStates(m) ==
    /\ toUpperCase(m.originState) \in US_STATES
    /\ toUpperCase(m.destState) \in US_STATES

\* the state a stored origin or destination ends with
StateOfPlace(place) == SubSeq(place, Len(place) - 1, Len(place))

\* C12: in every returned load and every stored Load the origin and destination
\* states are both in the US state list; when the match of the city pattern has an
\* invalid state token nothing of that match gets into the lane: the lane is absent,
\* or it is the one of the state-only pattern (no cities, that pattern's states).
C12_LaneStatesValid ==
    /\ ExtractedLoad =>
          LET l == out[1][1]
          IN  /\ l.originState = None <=> l.destState = None
              /\ l.originState # None =>
                    l.originState[1] \in US_STATES /\ l.destState[1] \in US_STATES
              /\ (inp.lane1 # None /\ ~ValidStates(inp.lane1[1])) =>
                    IF inp.lane2 # None /\ ValidStates(inp.lane2[1])
                    THEN /\ l.originCity = Some(<<>>) /\ l.destCity = Some(<<>>)
                         /\ l.originState = Some(toUpperCase(inp.lane2[1].originState))
                         /\ l.destState = Some(toUpperCase(inp.lane2[1].destState))
                    ELSE /\ l.originCity = None /\ l.destCity = None
                         /\ l.originState = None /\ l.destState = None
    /\ \A i \in 1..Len(loadTable) :
          /\ loadTable[i].origin # None => StateOfPlace(loadTable[i].origin[1]) \in US_STATES
          /\ loadTable[i].destination # None =>
                StateOfPlace(loadTable[i].destination[1]) \in US_STATES

\* C12 witness: a load returned for a content whose only lane match is
\* "Dallas, TZ -> Atlanta, GA" holds no lane
C12_Witness_InvalidToken ==
    /\ ExtractedLoad
    /\ inp.lane1 # None /\ inp.lane1[1].originState = TZ
    /\ inp.lane2 = None
    /\ out[1][1].originState = None /\ out[1][1].destCity = None

\* the text the pre-filter looks at
OfferContent == toLowerCase(inp.subject \o Space \o inp.body)

HasPhrase(content, phrases) == \E i \in 1..Len(phrases) : includes(content, phrases[i])

\* the pre-filter of the service decides as C13 says
C13_ServiceFilter ==
    (kind = "isLoadOffer" /\ out # None) =>
        out[1] = (/\ ~HasPhrase(OfferContent, newsletterKeywords)
                  /\ Hits(OfferContent, loadKeywords) >= 2)

\* the pre-filter of the test script decides as C13 says
C13_ScriptFilter ==
    (kind = "script_isLoadOffer" /\ out # None) =>
        out[1] = (/\ ~HasPhrase(OfferContent, script_newsletterKeywords)
                  /\ Hits(OfferContent, script_loadKeywords) >= 2)

\* a message the pre-filter turned away has stored no Load and started no update of
\* BrokerStats
C13_FilteredStoresNothing ==
    \A p \in Procs :
        (local[p] # None /\ local[p][1].skipped = "filter") =>
            /\ ~local[p][1].inserted
            /\ local[p][1].broker = None
            /\ pc[p] = "done"

\* C13: isLoadOffer (either copy of it) rejects every message whose subject + body
\* holds a newsletter phrase, however many load keywords it holds, and otherwise
\* accepts exactly when at least two keywords of the load keyword list occur; a
\* message isLoadOffer rejects stores no Load and leaves BrokerStats alone.
C13_PreFilter ==
    /\ C13_ServiceFilter
    /\ C13_ScriptFilter
    /\ C13_FilteredStoresNothing

\* ---------------------------------------------------------------------------
\* Claims about the broker identifier (SpecBroker)
\* ---------------------------------------------------------------------------

Identified == kind = "identifyBroker"
Decided == kind = "isLikelyBrokerEmail"

\* the domain of the sender of the call recorded in inp, None when it has none
SenderDomain == extractDomain(toLowerCase(inp[1].fromEmail))

\* the directory entries whose domain the sender's domain equals or ends with
\* after a dot
ExactEntries ==
    LET domain == SenderDomain
    IN  IF domain = None THEN {}
        ELSE {i \in 1..Len(KNOWN_BROKERS) :
                \/ domain[1] = KNOWN_BROKERS[i].domain
                \/ endsWith(domain[1], Dot \o KNOWN_BROKERS[i].domain)}

\* C14: a sender whose domain equals a directory domain, or ends with "." and a
\* directory domain, is identified with similarity 1.0, and isLikelyBrokerEmail
\* answers isBroker = true, confidence high and the name of such an entry, whatever
\* the content is and whatever earlier entries matched approximately.
C14_ExactMatchIsHigh ==
    (Identified \/ Decided) =>
        \A entries \in {ExactEntries} :
            entries # {} =>
                /\ out[1].isBroker
                /\ out[1].confidence = "high"
                /\ \E i \in entries : out[1].brokerName = Some(KNOWN_BROKERS[i].name)
                /\ Identified => out[1].similarityScore = Some(Fraction(1, 1))

\* a subdomain of an added entry, which follows a seed entry that the same domain
\* matches approximately, decided high on an empty content
C14_Witness_AfterFuzzyEntry ==
    /\ Decided
    /\ out[1].brokerName = Some("Hub LLC")
    /\ \A entries \in {ExactEntries} :
          entries # {} /\ \A i \in entries : i > Len(KNOWN_BROKERS_seed)
    /\ inp[1].content.matchedKeywords = 0
    /\ ~inp[1].content.subjectMatches
    /\ ~inp[1].content.hasStateReferences
    /\ out[1].confidence = "high"
    /\ out[1].brokerName = Some("Hub LLC")

\* the directory entries the sender's domain matches, exactly or as a dot-suffix,
\* once a leading mail., smtp., email., webmail., mx. or send. is taken off it
StrippedEntries ==
    LET domain == SenderDomain
    IN  IF domain = None \/ cleanDomainOf(domain[1]) = domain[1] THEN {}
        ELSE LET cleanDomain == cleanDomainOf(domain[1])
             IN  {i \in 1..Len(KNOWN_BROKERS) :
                    \/ cleanDomain = KNOWN_BROKERS[i].domain
                    \/ endsWith(cleanDomain, Dot \o KNOWN_BROKERS[i].domain)}

\* C15: a sender domain that carries a mail-infrastructure prefix and matches a
\* directory domain once the prefix is stripped (mail.hubgroup.com against
\* hubgroup.com) is identified with similarity 0.95, not 1.0.
C15_StrippedPrefixIs95 ==
    Identified =>
        \A entries \in {StrippedEntries} :
            entries # {} => out[1].similarityScore = Some(Fraction(95, 100))

\* the six conditions of the decision, in order, for a domain check and a content
\* check, and the confidence each one gives
RuleHolds(domainCheck, contentCheck) ==
    <<domainCheck.isBroker /\ domainCheck.confidence = "high",
      contentCheck.subjectMatches /\ contentCheck.score >= 4,
      contentCheck.subjectMatches /\ contentCheck.hasStateReferences
          /\ contentCheck.matchedKeywords >= 2,
      domainCheck.confidence = "medium" /\ contentCheck.hasBrokerKeywords,
      ~domainCheck.isBroker /\ contentCheck.score >= 4,
      contentCheck.subjectMatches /\ contentCheck.score >= 2>>

RuleConfidence == <<"high", "high", "high", "medium", "medium", "medium">>

\* C16: isLikelyBrokerEmail decides by the ordered list of six rules, the first
\* whose condition holds giving the confidence; the answer is isBroker = false
\* exactly when none of the six holds.
C16_OrderedRules ==
    Decided =>
        \A holds \in {RuleHolds(out[1].domainCheck, analyzeContent(inp[1].content))} :
            LET firing == {i \in 1..6 : holds[i]}
            IN  /\ out[1].isBroker <=> firing # {}
                /\ firing # {} =>
                     out[1].confidence =
                         RuleConfidence[CHOOSE i \in firing : \A k \in firing : i <= k]
                /\ firing = {} => out[1].confidence = "low"

\* a sender of medium domain confidence whose content also satisfies the second
\* rule: the earlier rule decides, high
C16_Witness_EarlierRuleWins ==
    /\ Decided
    /\ inp[1].content.subjectMatches
    /\ inp[1].content.matchedKeywords = 1
    /\ ~inp[1].content.hasStateReferences
    /\ out[1].domainCheck.confidence = "medium"
    /\ out[1].confidence = "high"

Domains(registry) == {registry[i].domain : i \in 1..Len(registry)}
UniqueDomains(registry) == Cardinality(Domains(registry)) = Len(registry)
IsPrefixOf(old, new) == Len(old) <= Len(new) /\ SubSeq(new, 1, Len(old)) = old

\* C17: the directory is append-only with unique domains. No two entries share a
\* domain; the seed entries stay at the head of the list unchanged; a call of
\* addCustomBroker keeps every entry that was there, in place, adds at most the
\* entry it was given, and changes nothing when that entry's domain was present.
C17_AppendOnlyUnique ==
    /\ UniqueDomains(KNOWN_BROKERS)
    /\ IsPrefixOf(KNOWN_BROKERS_seed, KNOWN_BROKERS)
    /\ kind = "addCustomBroker" =>
          /\ IsPrefixOf(prev[1], KNOWN_BROKERS)
          /\ inp[1].domain \in Domains(prev[1]) => KNOWN_BROKERS = prev[1]
          /\ inp[1].domain \notin Domains(prev[1]) => KNOWN_BROKERS = Append(prev[1], inp[1])

\* a second call whose entry names a domain an earlier call added, or the seed
\* holds: the directory with its added entry is left as it was
C17_Witness_DuplicateRefused ==
    /\ kind = "addCustomBroker"
    /\ Len(KNOWN_BROKERS) > Len(KNOWN_BROKERS_seed)
    /\ inp[1].domain \in Domains(prev[1])
    /\ KNOWN_BROKERS = prev[1]

FracEq(a, b) == a.num * b.den = b.num * a.den

\* the greatest of a set of similarities, None for the empty set
Greatest(S) == IF S = {} THEN None ELSE Some(CHOOSE f \in S : \A g \in S : FracGeq(f, g))

\* the rules of domain matching that one directory entry satisfies, as the set of
\* the similarities they give, in the order 1.0, 0.95, edit distance, containment
SatisfiedRules(domain, broker) ==
    LET similarity == calculateSimilarity(cleanDomainOf(domain), broker.domain)
        brokerBaseName == brokerBaseNameOf(broker.domain)
        exact == domain = broker.domain \/ endsWith(domain, Dot \o broker.domain)
        stripped == \/ cleanDomainOf(domain) = broker.domain
                    \/ endsWith(cleanDomainOf(domain), Dot \o broker.domain)
    IN  <<IF exact THEN {Fraction(1, 1)} ELSE {},
          IF stripped THEN {Fraction(95, 100)} ELSE {},
          IF FracGeq(similarity, Fraction(75, 100)) THEN {similarity} ELSE {},
          IF includes(domain, brokerBaseName) /\ Len(brokerBaseName) > 4
          THEN {Fraction(8, 10)} ELSE {}>>

\* what an entry contributes when its first satisfied rule wins
FirstRuleContribution(rules) ==
    LET satisfied == {r \in 1..4 : rules[r] # {}}
    IN  IF satisfied = {} THEN {}
        ELSE rules[CHOOSE r \in satisfied : \A q \in satisfied : r <= q]

\* what an entry contributes when, past the two exact rules, both the
\* edit-distance rule and the containment rule are tried and the greater is kept
BestRuleContribution(rules) ==
    IF rules[1] # {} THEN rules[1]
    ELSE IF rules[2] # {} THEN rules[2]
    ELSE LET best == Greatest(rules[3] \cup rules[4])
         IN  IF best = None THEN {} ELSE {best[1]}

SameSimilarity(score, best) ==
    \/ score = None /\ best = None
    \/ score # None /\ best # None /\ FracEq(score[1], best[1])

\* C20 as stated: per directory entry the first satisfied rule wins, so an entry
\* the edit-distance rule accepts at s < 0.8 contributes s and not the 0.8 of the
\* containment rule; the similarity returned is the greatest contribution.
C20_FirstRulePerEntry ==
    Identified =>
        \A sender \in {SenderDomain} :
            sender # None =>
                SameSimilarity(out[1].similarityScore,
                    Greatest(UNION {FirstRuleContribution(SatisfiedRules(sender[1], KNOWN_BROKERS[i])) :
                                      i \in 1..Len(KNOWN_BROKERS)}))

\* C20 as the code has it: past the two exact rules an entry contributes the
\* greater of its edit-distance similarity (when at least 0.75) and the 0.8 of the
\* containment rule (when it applies); the similarity returned is the greatest
\* contribution over the directory.
C20_BestRulePerEntry ==
    Identified =>
        \A sender \in {SenderDomain} :
            sender # None =>
                SameSimilarity(out[1].similarityScore,
                    Greatest(UNION {BestRuleContribution(SatisfiedRules(sender[1], KNOWN_BROKERS[i])) :
                                      i \in 1..Len(KNOWN_BROKERS)}))

\* landstarline.com against landstar.com: accepted by edit distance at 12/16, and
\* the base name landstar is contained, so 0.8 is returned and the confidence is
\* medium
C20_Witness_ContainmentRaises ==
    /\ Identified
    /\ inp[1].fromEmail = <<"a","@","l","a","n","d","s","t","a","r","l","i","n","e",".","c","o","m">>
    /\ out[1].brokerName = Some("Landstar")
    /\ out[1].similarityScore = Some(Fraction(8, 10))
    /\ out[1].confidence = "medium"

(***************************************************************************)
(* Calls that must not throw: the pure functions on their inputs, the      *)
(* identifier on its senders, and extractFromMessage called again and      *)
(* again by one caller against a store that fails                          *)
(***************************************************************************)
StoreUntouched == \A p \in Procs : pc[p] = "idle"

NextCalls ==
    \/ NextScore
    \/ StoreUntouched /\ NextBroker
    \/ kind = "none" /\ Extract("manual")
    \/ kind = "none" /\ FindMany("manual")
    \/ kind = "none" /\ FindUnique("manual")
    \/ kind = "none" /\ Upsert("manual")

InitCalls == InitScore \/ InitOutage

SpecCalls == InitCalls /\ [][NextCalls]_vars

\* C18: extraction and identification never throw. isLikelyBrokerEmail returns a
\* result for every sender and content, the empty sender included, and its
\* rejection is isBroker = false with confidence low; extractLoad returns a load
\* or none; extractFromMessage resolves even when a store call of it failed.
C18_NeverThrows ==
    /\ Decided =>
          /\ out # None
          /\ out[1].isBroker \in BOOLEAN
          /\ out[1].confidence \in {"high", "medium", "low"}
          /\ ~out[1].isBroker => out[1].confidence = "low" /\ out[1].brokerName = None
    /\ Identified =>
          /\ out # None
          /\ inp[1].fromEmail = <<>> => out[1] = NotABroker
    /\ (kind = "extractLoad" /\ out # None) =>
          \/ out[1] = None
          \/ out[1][1].confidence \in 25..100
    /\ \A p \in Procs :
          /\ outcome[p] # "rejected"
          /\ pc[p] = "done" => outcome[p] = "resolved"

\* a call whose prisma.load.create threw, resolved all the same
C18_Witness_StoreFailed ==
    /\ pc["manual"] = "done"
    /\ local["manual"][1].failedAt = "create"
    /\ outcome["manual"] = "resolved"

(***************************************************************************)
(* Batches: a Gmail sync, an Outlook sync and the backfill script          *)
(***************************************************************************)
MaxBatch == 2

Runs == {"GMAIL", "OUTLOOK", "BACKFILL"}

\* the status the catch of syncMessages leaves: its syncJob.update({ status:
\* 'failed' }) may throw as well, and then the row stays as it was created
catchStatus(catchFails) == IF catchFails THEN "running" ELSE "failed"

\* prisma.syncJob.create({ status: 'running' }) and the listing of the messages
\* (getAuthClient or the listing may throw into the catch of syncMessages);
\* the backfill has no SyncJob row, only its list
StartSync ==
    /\ syncJob = None
    /\ kind = "none"
    /\ \A p \in Procs : pc[p] = "idle"
    /\ \E run \in Runs, found \in 0..MaxBatch, listed, catchFails \in BOOLEAN :
         /\ ~listed => run # "BACKFILL" /\ found = 0
         /\ listed => ~catchFails
         /\ syncJob' = Some([run |-> run,
                             status |-> IF run = "BACKFILL" THEN "none"
                                        ELSE IF listed THEN "running"
                                        ELSE catchStatus(catchFails),
                             messagesFound |-> found,
                             messagesSynced |-> 0,
                             index |-> 1,
                             phase |-> IF listed THEN "loop" ELSE "returned",
                             saved |-> {},
                             threw |-> {},
                             jobFailure |-> ~listed,
                             lastSyncAdvanced |-> FALSE])
    /\ UNCHANGED <<storeVars, scoreVars, KNOWN_BROKERS, authVars, scheduler>>

\* what can happen to one message of a run before extractFromMessage is called
MessageSteps(run) ==
    IF run = "GMAIL" THEN {"noRefId", "get", "noId", "upsert", "findUnique", "none"}
    ELSE IF run = "OUTLOOK" THEN {"noId", "upsert", "none"}
    ELSE {"none"}

\* one iteration of the loop up to the call of extractFromMessage. Gmail: the
\* reference without id is skipped; messages.get, message.upsert or
\* message.findUnique may throw into the catch of the loop; saveMessage returns at
\* once for a message without id. Outlook: saveMessage is the upsert alone.
SyncMessage ==
    /\ syncJob # None
    /\ LET j == syncJob[1]
           i == j.index
           next == [j EXCEPT !.index = i + 1]
       IN  /\ j.phase = "loop"
           /\ i <= j.messagesFound
           /\ \E step \in MessageSteps(j.run) :
                CASE step = "noRefId" ->
                       /\ syncJob' = Some(next)
                       /\ UNCHANGED <<pc, outcome>>
                  [] step = "get" ->
                       /\ syncJob' = Some([next EXCEPT !.threw = @ \cup {i}])
                       /\ UNCHANGED <<pc, outcome>>
                  [] step = "noId" ->
                       /\ syncJob' = Some([next EXCEPT !.messagesSynced = @ + 1])
                       /\ UNCHANGED <<pc, outcome>>
                  [] step = "upsert" ->
                       /\ syncJob' = Some([next EXCEPT !.threw = @ \cup {i}])
                       /\ UNCHANGED <<pc, outcome>>
                  [] step = "findUnique" ->
                       /\ syncJob' = Some([next EXCEPT !.saved = @ \cup {i},
                                                       !.threw = @ \cup {i}])
                       /\ UNCHANGED <<pc, outcome>>
                  [] step = "none" /\ j.run = "OUTLOOK" ->
                       /\ syncJob' = Some([next EXCEPT !.saved = @ \cup {i},
                                                       !.messagesSynced = @ + 1])
                       /\ UNCHANGED <<pc, outcome>>
                  [] step = "none" /\ j.run = "GMAIL" ->
                       /\ syncJob' = Some([j EXCEPT !.saved = @ \cup {i}, !.phase = "extract"])
                       /\ pc' = [pc EXCEPT !["scheduled"] = "idle"]
                       /\ outcome' = [outcome EXCEPT !["scheduled"] = "none"]
                  [] step = "none" /\ j.run = "BACKFILL" ->
                       /\ syncJob' = Some([j EXCEPT !.phase = "extract"])
                       /\ pc' = [pc EXCEPT !["scheduled"] = "idle"]
                       /\ outcome' = [outcome EXCEPT !["scheduled"] = "none"]
    /\ UNCHANGED <<loadTable, brokerStats, clock, local, basis, faults, scoreVars, KNOWN_BROKERS, authVars, scheduler>>

Extracting == syncJob # None /\ syncJob[1].phase = "extract"

\* extractFromMessage has returned to the loop: the Gmail loop counts the message,
\* or its catch takes what was thrown
SyncReturn ==
    /\ Extracting
    /\ pc["scheduled"] = "done"
    /\ LET j == syncJob[1]
           next == [j EXCEPT !.index = @ + 1, !.phase = "loop"]
       IN  syncJob' = Some(IF outcome["scheduled"] = "rejected"
                           THEN [next EXCEPT !.threw = @ \cup {j.index}]
                           ELSE IF j.run = "GMAIL"
                           THEN [next EXCEPT !.messagesSynced = @ + 1]
                           ELSE next)
    /\ UNCHANGED <<storeVars, scoreVars, KNOWN_BROKERS, authVars, scheduler>>

\* after the loop: emailAccount.update({ lastSyncAt }) and then syncJob.update({
\* status: 'completed' }); when one of the two throws the outer catch marks the job
\* failed, if its own update goes through, and rethrows
FinishSync ==
    /\ syncJob # None
    /\ LET j == syncJob[1]
       IN  /\ j.phase = "loop"
           /\ j.index > j.messagesFound
           /\ \E thrownBy \in {"none", "emailAccount.update", "syncJob.update"},
                 catchFails \in BOOLEAN :
                /\ thrownBy # "none" => j.run # "BACKFILL"
                /\ thrownBy = "none" => ~catchFails
                /\ syncJob' = Some([j EXCEPT
                       !.phase = "returned",
                       !.jobFailure = thrownBy # "none",
                       !.lastSyncAdvanced = j.run # "BACKFILL"
                                            /\ thrownBy # "emailAccount.update",
                       !.status = IF j.run = "BACKFILL" THEN "none"
                                  ELSE IF thrownBy # "none" THEN catchStatus(catchFails)
                                  ELSE "completed"])
    /\ UNCHANGED <<storeVars, scoreVars, KNOWN_BROKERS, authVars, scheduler>>

NextSync ==
    \/ StartSync
    \/ SyncMessage
    \/ Extracting /\ pc["scheduled"] = "idle" /\ Extract("scheduled")
    \/ Extracting /\ FindMany("scheduled")
    \/ Extracting /\ FindUnique("scheduled")
    \/ Extracting /\ Upsert("scheduled")
    \/ SyncReturn
    \/ FinishSync

SpecSync == InitOutage /\ [][NextSync]_vars

Returned == syncJob # None /\ syncJob[1].phase = "returned"

\* what holds of every batch: a message at which something threw does not end
\* the run, the messages after it are gone through, and the job is marked
\* completed unless a call after the loop threw
C19_BatchNotAborted ==
    /\ syncJob # None => syncJob[1].threw \subseteq 1..(syncJob[1].index - 1)
    /\ (Returned /\ ~syncJob[1].jobFailure) =>
          /\ syncJob[1].index = syncJob[1].messagesFound + 1
          /\ syncJob[1].run # "BACKFILL" => syncJob[1].status = "completed"

\* C19: a single malformed message never aborts a batch. A failure at message i
\* does not fail the run nor keep the messages after i from being processed; the
\* sync job ends completed, and its messagesSynced is exactly the number of
\* messages that were saved.
C19_SyncedCountsSaved ==
    /\ C19_BatchNotAborted
    /\ (Returned /\ ~syncJob[1].jobFailure /\ syncJob[1].run # "BACKFILL") =>
          syncJob[1].messagesSynced = Cardinality(syncJob[1].saved)

(***************************************************************************)
(* Further claims about the broker identifier (SpecBroker)                 *)
(***************************************************************************)
\* a similarity of at least 0.75 and less than 0.80
BelowMedium(score) ==
    /\ score # None
    /\ FracGeq(score[1], Fraction(75, 100))
    /\ ~FracGeq(score[1], Fraction(80, 100))

\* C21: a winning similarity below 0.80 is a rejection. identifyBroker answers
\* isBroker = false for a sender whose best similarity is in [0.75, 0.80), and
\* the rule "no domain match and contentScore >= 4" applies to it: with such a
\* content and no subject pattern the sender is a medium-confidence broker.
C21_BelowMediumRejected ==
    /\ (Identified /\ BelowMedium(out[1].similarityScore)) => ~out[1].isBroker
    /\ (/\ Decided
        /\ BelowMedium(out[1].domainCheck.similarityScore)
        /\ analyzeContent(inp[1].content).score >= 4
        /\ ~inp[1].content.subjectMatches)
       => out[1].isBroker /\ out[1].confidence = "medium"

(***************************************************************************)
(* Further claims about extraction and scoring (SpecScore)                 *)
(***************************************************************************)
\* a content with what one field extractor reads taken out of it
WithoutField(content, field) ==
    CASE field = "loadNumber" -> [content EXCEPT !.loadNumberCaps = NoCaps(5)]
      [] field = "lane" -> [content EXCEPT !.lane1 = None, !.lane2 = None]
      [] field = "rate" -> [content EXCEPT !.rateCaps = NoCaps(6)]
      [] field = "miles" -> [content EXCEPT !.milesCaps = NoCaps(3)]
      [] field = "equipment" -> [content EXCEPT !.text = <<>>]
      [] field = "weight" -> [content EXCEPT !.weightCaps = NoCaps(2)]
      [] field = "dates" -> [content EXCEPT !.dateTokens = <<>>]
      [] OTHER -> content

\* C22: a fault inside one field extractor is contained at the field. When the
\* extraction of one field throws, that field alone counts as not found and
\* extractLoad returns what it returns for the content without that field: a
\* load with every other field and the confidence computed from them.
C22_FieldFaultContained ==
    (kind = "extractLoadCaught" /\ out # None) =>
        out[1] = extractLoad(WithoutField(inp.content, inp.thrownBy))

\* value is what the ordered captures caps give under the range lo..hi: the
\* capture of the earliest pattern that matched with a value in the range, none
\* when there is no such pattern
EarliestInRange(value, caps, lo, hi) ==
    LET inRange == {i \in 1..Len(caps) : caps[i] # None /\ caps[i][1] \in lo..hi}
    IN  IF inRange = {} THEN value = None
        ELSE \E i \in inRange :
                /\ value = caps[i]
                /\ \A k \in 1..(i - 1) : k \notin inRange

\* C23: for rate, miles and weight the value returned is the capture of the
\* earliest pattern that matches with a value in the field's range, an earlier
\* match out of range not stopping the later patterns; so a returned rate is in
\* [300, 15000] dollars, a weight in [100, 50000], and the miles of a returned
\* load, read from the text or from the distance table, in [50, 3500].
C23_EarliestInRange ==
    (kind = "extractLoad" /\ out # None) =>
        /\ EarliestInRange(extractRate(inp), inp.rateCaps, 30000, 1500000)
        /\ EarliestInRange(extractMiles(inp), inp.milesCaps, 50, 3500)
        /\ EarliestInRange(extractWeight(inp), inp.weightCaps, 100, 50000)
        /\ \A t \in stateDistances : t[3] \in 50..3500
        /\ out[1] # None =>
              /\ out[1][1].rate = extractRate(inp)
              /\ out[1][1].weight = extractWeight(inp)
              /\ out[1][1].rate # None => out[1][1].rate[1] \in 30000..1500000
              /\ out[1][1].weight # None => out[1][1].weight[1] \in 100..50000
              /\ out[1][1].miles # None => out[1][1].miles[1] \in 50..3500
              /\ extractMiles(inp) # None => out[1][1].miles = extractMiles(inp)

\* the first rate pattern captured $200, out of range, and the last one $750,
\* which is the rate of the load
C23_Witness_LaterPatternTaken ==
    /\ kind = "extractLoad"
    /\ out # None /\ out[1] # None
    /\ inp.rateCaps[1] = Some(20000)
    /\ out[1][1].rate = Some(75000)

RateNotes == {"Excellent rate", "Good rate", "Below target rate"}
LaneNotes == {"Preferred origin", "Preferred destination"}
EquipmentNotes == {"Equipment match"}
DistanceNotes == {"Good distance"}

\* the points of the four components of a fit score
ComponentPoints(prefs, load) ==
    [rate |-> ratePoints(prefs, load.ratePerMile),
     lane |-> (IF PreferredPlace(prefs, load.origin) THEN 15 ELSE 0)
              + (IF PreferredPlace(prefs, load.destination) THEN 15 ELSE 0),
     equipment |-> IF matchesEquipment(prefs, load.equipment) THEN 20 ELSE 0,
     distance |-> distancePoints(prefs, load.distance)]

\* C24 as stated: the reasons hold a note for every component (rate, lane,
\* equipment, distance) that fell short of its maximum.
C24_NoteForEveryShortfall ==
    PriorityScored =>
        LET points == ComponentPoints(inp.prefs, inp.load)
            notes == SeqToSet(out[1].reason)
        IN  /\ points.rate < 40 => notes \cap RateNotes # {}
            /\ points.lane < 30 => notes \cap LaneNotes # {}
            /\ points.equipment < 20 => notes \cap EquipmentNotes # {}
            /\ points.distance < 10 => notes \cap DistanceNotes # {}

\* C24 as the code has it: the reasons hold a note for every component that
\* earned points, the 5 points of a distance up to 1.5 x maxDistance excepted: a
\* rate note exactly when the rate earned 40, 25 or 10, a lane note for each
\* preferred end, the equipment note exactly on a match, the distance note
\* exactly for the full 10; a component with no points, and the 5-point
\* distance, leave no note, and without any note the reason is "No match criteria".
C24_NoteForEveryAward ==
    PriorityScored =>
        LET points == ComponentPoints(inp.prefs, inp.load)
            notes == SeqToSet(out[1].reason)
        IN  /\ points.rate > 0 <=> notes \cap RateNotes # {}
            /\ points.rate = 10 <=> "Below target rate" \in notes
            /\ points.lane = 15 * Cardinality(notes \cap LaneNotes)
            /\ points.equipment = 20 <=> "Equipment match" \in notes
            /\ points.distance = 10 <=> "Good distance" \in notes
            /\ (points.rate = 0 /\ points.lane = 0 /\ points.equipment = 0
                /\ points.distance < 10) <=> out[1].reason = <<"No match criteria">>

\* a load between maxDistance and 1.5 x maxDistance, rated below
\* minRatePerMile - 0.25, whose equipment does not match: no note at all
C24_Witness_ShortfallsWithoutNote ==
    /\ PriorityScored
    /\ ComponentPoints(inp.prefs, inp.load).distance = 5
    /\ TruthyNum(inp.load.ratePerMile)
    /\ ComponentPoints(inp.prefs, inp.load).rate = 0
    /\ TruthyStr(inp.load.equipment)
    /\ ComponentPoints(inp.prefs, inp.load).equipment = 0
    /\ out[1].reason = <<"No match criteria">>

\* a capture of a lane pattern whose two states are valid US states
ValidCapture(m) ==
    /\ m # None
    /\ toUpperCase(m[1].originState) \in US_STATES
    /\ toUpperCase(m[1].destState) \in US_STATES

\* C25: lane extraction tries the city form, else the labeled Origin: and
\* Destination: fields, else the bare state form. A message without a match of
\* the city form whose labeled fields each name a city and a valid state yields
\* the lane of those cities and states.
C25_LabeledFieldsForm ==
    (/\ kind \in {"extractLane", "script_extractLane"}
     /\ out # None
     /\ inp.lane1 = None
     /\ ValidCapture(inp.labeled))
    => out[1] = Some([originCity |-> normalizeCity(inp.labeled[1].originCity),
                      originState |-> toUpperCase(inp.labeled[1].originState),
                      destCity |-> normalizeCity(inp.labeled[1].destCity),
                      destState |-> toUpperCase(inp.labeled[1].destState)])

(***************************************************************************)
(* GmailOAuthService: getAuthClient, refreshAccessToken, isTokenExpired     *)
(***************************************************************************)
MaxNow == 2
MaxRefreshes == 3

\* bufferMs = 5 * 60 * 1000, in minutes
bufferMs == 5

\* Date.now() + 3600 * 1000, the expiry stored when the response carries none
defaultLifetime == 60

\* expiry - Date.now() < bufferMs; a missing expiry counts as expired
isTokenExpired(expiry, now) ==
    IF expiry = None THEN TRUE ELSE expiry[1] - now < bufferMs

\* what one activation of getAuthClient does after reading the account;
\* skipValidation only silences the three console.log lines
getAuthClient(account, skipValidation, now) ==
    IF account = None \/ account[1].provider # "GMAIL" THEN "notFound"
    ELSE IF isTokenExpired(account[1].tokenExpiry, now)
    THEN IF ~account[1].refreshToken THEN "noRefreshToken" ELSE "refresh"
    ELSE "client"

\* the rows the account table can hold when a call starts
EmailAccounts ==
    {None} \cup
    {Some(a) : a \in [provider : {"GMAIL", "OUTLOOK"},
                      tokenExpiry : {None, Some(0), Some(4), Some(defaultLifetime)},
                      refreshToken : BOOLEAN,
                      isActive : {TRUE}]}

\* the lifetimes, in minutes, of the access tokens the provider hands out
ProviderLifetimes == {3, defaultLifetime}

\* what client.refreshAccessToken() can answer
Credentials ==
    [threw : {FALSE}, access_token : BOOLEAN,
     expiry_date : {None} \cup {Some(l) : l \in ProviderLifetimes}]
    \cup {[threw |-> TRUE, access_token |-> FALSE, expiry_date |-> None]}

\* the effect of one activation on the call and on the account row
Activate(skipValidation) ==
    \E step \in {getAuthClient(emailAccount, skipValidation, dateNow)} :
      /\ authCall' = [authCall EXCEPT
                        !.pc = CASE step = "client" -> "returned"
                                 [] step = "refresh" -> "refresh"
                                 [] OTHER -> "threw",
                        !.skipValidation = skipValidation,
                        !.calls = @ + 1]
      /\ emailAccount' = IF step = "noRefreshToken"
                         THEN Some([emailAccount[1] EXCEPT !.isActive = FALSE])
                         ELSE emailAccount

\* a caller asks for a client: getAuthClient(emailAccountId)
GetAuthClient ==
    /\ authCall.pc = "idle"
    /\ kind = "none" /\ syncJob = None
    /\ \A p \in Procs : pc[p] = "idle"
    /\ \E step \in {getAuthClient(emailAccount, FALSE, dateNow)} :
         /\ authCall' = [pc |-> CASE step = "client" -> "returned"
                                  [] step = "refresh" -> "refresh"
                                  [] OTHER -> "threw",
                         skipValidation |-> FALSE,
                         refreshes |-> 0,
                         calls |-> 1]
         /\ emailAccount' = IF step = "noRefreshToken"
                            THEN Some([emailAccount[1] EXCEPT !.isActive = FALSE])
                            ELSE emailAccount
    /\ UNCHANGED <<storeVars, scoreVars, KNOWN_BROKERS, syncJob, scheduler, dateNow>>

\* await this.refreshAccessToken(emailAccountId): the new token and its expiry are
\* stored, or the account is deactivated and the call throws
RefreshAccessToken ==
    /\ authCall.pc = "refresh"
    /\ authCall.refreshes < MaxRefreshes
    /\ \E credentials \in Credentials :
         IF credentials.threw \/ ~credentials.access_token
         THEN /\ emailAccount' = Some([emailAccount[1] EXCEPT !.isActive = FALSE])
              /\ authCall' = [authCall EXCEPT !.pc = "threw", !.refreshes = @ + 1]
         ELSE /\ emailAccount' =
                    Some([emailAccount[1] EXCEPT
                            !.tokenExpiry =
                                IF credentials.expiry_date # None
                                THEN Some(dateNow + credentials.expiry_date[1])
                                ELSE Some(dateNow + defaultLifetime)])
              /\ authCall' = [authCall EXCEPT !.pc = "retry", !.refreshes = @ + 1]
    /\ UNCHANGED <<storeVars, scoreVars, KNOWN_BROKERS, syncJob, scheduler, dateNow>>

\* return this.getAuthClient(emailAccountId, true)
RetryGetAuthClient ==
    /\ authCall.pc = "retry"
    /\ Activate(TRUE)
    /\ UNCHANGED <<storeVars, scoreVars, KNOWN_BROKERS, syncJob, scheduler, dateNow>>

\* the caller has its client or its exception
AuthReturn ==
    /\ authCall.pc \in {"returned", "threw"}
    /\ authCall' = [authCall EXCEPT !.pc = "idle"]
    /\ UNCHANGED <<storeVars, scoreVars, KNOWN_BROKERS, syncJob, scheduler, emailAccount, dateNow>>

\* a minute passes
AuthTick ==
    /\ dateNow < MaxNow
    /\ dateNow' = dateNow + 1
    /\ UNCHANGED <<storeVars, scoreVars, KNOWN_BROKERS, syncJob, scheduler, emailAccount, authCall>>

InitAuth ==
    /\ TablesInit
    /\ faults = 0
    /\ kind = "none" /\ inp = None /\ out = None /\ prev = None
    /\ emailAccount \in EmailAccounts
    /\ authCall = NoAuthCall
    /\ dateNow = 0
    /\ SchedulerIdle

NextAuth ==
    \/ GetAuthClient
    \/ RefreshAccessToken
    \/ RetryGetAuthClient
    \/ AuthReturn
    \/ AuthTick

SpecAuth == InitAuth /\ [][NextAuth]_vars

\* C26: one top-level getAuthClient performs at most one refreshAccessToken: the
\* retry made with skipValidation = true returns a client without refreshing
\* again, even when the stored expiry is still within the expiry buffer
C26_AtMostOneRefresh ==
    /\ authCall.refreshes <= 1
    /\ authCall.skipValidation => authCall.pc # "refresh"

(***************************************************************************)
(* Loads per source message                                                *)
(***************************************************************************)
\* the rows of the "Load" table created from one message
LoadsOfMessage(messageId) == {i \in 1..Len(loadTable) : loadTable[i].messageId = messageId}

\* C27: at most one Load record exists per source message, however often the
\* message is processed by sync runs and backfill runs
C27_OneLoadPerMessage ==
    \A message \in Messages : Cardinality(LoadsOfMessage(message.id)) <= 1

(***************************************************************************)
(* PollingScheduler: start, runSyncCycle, triggerManualSync                *)
(***************************************************************************)
MaxAccounts == 2

\* the trigger's call of runSyncCycle has not returned
InCycle(t) == scheduler.cycle[t].pc \in {"findMany", "loop"}

\* what the finally block leaves in isRunning, without the finally block
runSyncCycle_noFinally(threw) == threw

\* finally { this.isRunning = false }, after the try and after the catch
runSyncCycle_finally(threw) == FALSE

\* start(): a second call returns at once; the first schedules the cron job and
\* the 5-second timer
SchedulerStart ==
    /\ ~scheduler.cronJob
    /\ kind = "none" /\ syncJob = None /\ authCall.pc = "idle"
    /\ \A p \in Procs : pc[p] = "idle"
    /\ scheduler' = [scheduler EXCEPT !.cronJob = TRUE, !.timer = TRUE]
    /\ UNCHANGED <<storeVars, scoreVars, KNOWN_BROKERS, syncJob, authVars>>

\* the trigger can fire: the cron tick once the job is scheduled, the timer once,
\* triggerManualSync at any time
Fires(t) ==
    CASE t = "cron" -> scheduler.cronJob
      [] t = "startup" -> scheduler.timer
      [] OTHER -> kind = "none" /\ syncJob = None /\ authCall.pc = "idle"
                  /\ \A p \in Procs : pc[p] = "idle"

\* runSyncCycle up to its first await: the test of isRunning and its assignment
RunSyncCycle(t) ==
    /\ ~InCycle(t)
    /\ Fires(t)
    /\ scheduler' =
         [scheduler EXCEPT
            !.timer = IF t = "startup" THEN FALSE ELSE @,
            !.isRunning = TRUE,
            !.cycle[t] = IF scheduler.isRunning
                         THEN [NoCycle EXCEPT !.pc = "skipped"]
                         ELSE [NoCycle EXCEPT !.pc = "findMany"]]
    /\ UNCHANGED <<storeVars, scoreVars, KNOWN_BROKERS, syncJob, authVars>>

\* prisma.emailAccount.findMany({ where: { isActive: true } }): the accounts, or
\* an exception that the catch logs and the finally block follows
FindAccounts(t) ==
    /\ scheduler.cycle[t].pc = "findMany"
    /\ \/ \E n \in 0..MaxAccounts :
            scheduler' = [scheduler EXCEPT !.cycle[t].pc = "loop",
                                           !.cycle[t].accounts = n]
       \/ scheduler' = [scheduler EXCEPT !.cycle[t].pc = "done",
                                         !.cycle[t].threw = TRUE,
                                         !.isRunning = runSyncCycle_finally(TRUE)]
    /\ UNCHANGED <<storeVars, scoreVars, KNOWN_BROKERS, syncJob, authVars>>

\* one account of the loop: syncMessages returned, or threw into the catch of the
\* loop, or the provider is unknown
SyncAccount(t) ==
    /\ scheduler.cycle[t].pc = "loop"
    /\ scheduler.cycle[t].accounts > 0
    /\ \E result \in {"success", "failed", "unknown"} :
         scheduler' = [scheduler EXCEPT
                         !.cycle[t].accounts = @ - 1,
                         !.cycle[t].success = IF result = "success" THEN @ + 1 ELSE @,
                         !.cycle[t].failed = IF result = "failed" THEN @ + 1 ELSE @]
    /\ UNCHANGED <<storeVars, scoreVars, KNOWN_BROKERS, syncJob, authVars>>

\* the loop is over: the summary is logged and the finally block runs
EndSyncCycle(t) ==
    /\ scheduler.cycle[t].pc = "loop"
    /\ scheduler.cycle[t].accounts = 0
    /\ scheduler' = [scheduler EXCEPT !.cycle[t].pc = "done",
                                      !.isRunning = runSyncCycle_finally(FALSE)]
    /\ UNCHANGED <<storeVars, scoreVars, KNOWN_BROKERS, syncJob, authVars>>

NextPolling ==
    \/ SchedulerStart
    \/ \E t \in Triggers : RunSyncCycle(t)
    \/ \E t \in Triggers : FindAccounts(t)
    \/ \E t \in Triggers : SyncAccount(t)
    \/ \E t \in Triggers : EndSyncCycle(t)

SpecPolling == InitStats /\ [][NextPolling]_vars

\* the accounts a trigger's cycle has handed to syncMessages
Synced(t) == scheduler.cycle[t].success + scheduler.cycle[t].failed

\* C28: at most one sync cycle is in progress at any time; a cycle triggered
\* while another one runs is skipped without syncing any account; isRunning is
\* false again when the cycle has ended, whether it completed or threw
C28_OneCycleAtATime ==
    /\ \A t, u \in Triggers : InCycle(t) /\ InCycle(u) => t = u
    /\ \A t \in Triggers : scheduler.cycle[t].pc = "skipped" => Synced(t) = 0
    /\ scheduler.isRunning <=> \E t \in Triggers : InCycle(t)

\* a cycle that threw has ended, a later one runs, a third trigger was skipped
C28_Witness_SkippedAndReset ==
    \E t, u, v \in Triggers :
      /\ scheduler.cycle[t].pc = "done" /\ scheduler.cycle[t].threw
      /\ scheduler.cycle[u].pc = "loop" /\ Synced(u) > 0
      /\ scheduler.cycle[v].pc = "skipped"

(***************************************************************************)
(* The SyncJob row and lastSyncAt at the end of syncMessages (SpecSync)     *)
(***************************************************************************)
\* a Gmail or Outlook syncMessages call has returned or thrown
SyncEnded == Returned /\ syncJob[1].run # "BACKFILL"

\* no finished call leaves its job running
C29_JobSettled ==
    SyncEnded => syncJob[1].status \in {"completed", "failed"}

\* a completed job has messagesSynced <= messagesFound
C29_SyncedAtMostFound ==
    (SyncEnded /\ syncJob[1].status = "completed") =>
        syncJob[1].messagesSynced <= syncJob[1].messagesFound

\* lastSyncAt is advanced only by a run whose job ends completed
C29_LastSyncOnlyCompleted ==
    (SyncEnded /\ syncJob[1].lastSyncAdvanced) => syncJob[1].status = "completed"

\* C29: every SyncJob created in status running has reached completed or failed
\* when syncMessages has returned or thrown; a completed job has
\* messagesSynced <= messagesFound; the account's lastSyncAt is advanced only by
\* a run whose job ends completed, never by one that ends failed
C29_JobEndsAndLastSync ==
    /\ C29_JobSettled
    /\ C29_SyncedAtMostFound
    /\ C29_LastSyncOnlyCompleted

(***************************************************************************)
(* The subject pattern in isLikelyBrokerEmail (SpecBroker)                 *)
(***************************************************************************)
\* a keyword hit, a state token or a hub city
FurtherSignal(content) ==
    \/ content.matchedKeywords > 0
    \/ content.hasStateReferences
    \/ content.hasCityReferences

\* C30: a broker-style subject alone is sufficient. Whenever the subject matches
\* a broker subject pattern, isLikelyBrokerEmail answers isBroker = true for every
\* sender and body, with confidence at least medium, and with confidence high as
\* soon as one further signal is present; the threshold score >= 2 of the last
\* rule cannot fail when the subject pattern matched.
C30_SubjectAloneSuffices ==
    (Decided /\ inp[1].content.subjectMatches) =>
        /\ out[1].isBroker
        /\ out[1].confidence \in {"medium", "high"}
        /\ FurtherSignal(inp[1].content) => out[1].confidence = "high"
        /\ analyzeContent(inp[1].content).score >= 2

\* a subject pattern and nothing else, from a sender no directory entry resembles
C30_Witness_SubjectOnly ==
    /\ Decided
    /\ inp[1].content.subjectMatches
    /\ ~FurtherSignal(inp[1].content)
    /\ ~out[1].domainCheck.isBroker
    /\ out[1].isBroker
    /\ out[1].confidence = "medium"
    /\ out[1].reasoning = "Broker subject pattern"

====
